---------------------------- MODULE Spec2Model ----------------------------
(***************************************************************************)
(* Model of the TesseraTUI native formula library (src/native/src/lib.rs): *)
(* the formula parser tessera_parse_formula, the five aggregates           *)
(* tessera_sum / avg / min / max / count, and the release operation        *)
(* tessera_free_string, together with the heap of C strings the library    *)
(* hands to its caller.                                                    *)
(*                                                                         *)
(* Text is a sequence of characters.  A printable ASCII character is the   *)
(* one-character string of itself, tab, line feed, form feed and carriage  *)
(* return are "\t", "\n", "\f" and "\r", and every other character is the   *)
(* string "U+XXXX" of its code point.  A C string argument is a record     *)
(* [isNull, bytes]; a byte that cannot occur in UTF-8 is the element       *)
(* InvalidByte.  An f64 is a record [k, s, m, e]: k = "fin" is the binary64*)
(* value s * m * 2^e, k = "inf" carries its sign in s, k = "nan" is NaN.   *)
(* Arithmetic is IEEE-754 binary64, rounding to nearest, ties to even, on  *)
(* natural numbers of any size.                                            *)
(***************************************************************************)
EXTENDS Integers, Sequences, FiniteSets, TLC

VARIABLES
    heap,         \* live allocations made by the library: address -> text
    held,         \* pointers returned to the caller and not yet released
    op,           \* the last call: "init", "parse", "sum", ..., "free", "abort"
    formula,      \* argument of tessera_parse_formula
    column_name,  \* argument of the aggregate calls
    values_ptr,   \* argument of the aggregate calls: [isNull, arr]
    count,        \* argument of the aggregate calls
    ptr,          \* pointer returned by tessera_parse_formula / given to tessera_free_string
    result        \* FormulaResult returned by the last aggregate call

vars == <<heap, held, op, formula, column_name, values_ptr, count, ptr, result>>

---------------------------------------------------------------------------
(* Bounds of the model *)

\* addresses the allocator can hand out
MaxAddr == 3
\* longest values array enumerated over the cell alphabet
MaxCount == 2
\* longest formula enumerated over the formula alphabet
MaxLen == 4

---------------------------------------------------------------------------
(* Characters and text *)

NULL == 0

InvalidByte == "0xFF"

\* U+00DF, whose uppercase is the two characters "SS"
SharpS == "U+00DF"

\* U+00E9, whose uppercase is U+00C9
EAcute == "U+00E9"

\* U+FB01, the ligature whose uppercase is the two characters "FI"
LigatureFi == "U+FB01"

\* the characters with the Unicode property White_Space (char::is_whitespace):
\* U+0009..U+000D, U+0020, U+0085, U+00A0, U+1680, U+2000..U+200A, U+2028,
\* U+2029, U+202F, U+205F, U+3000
WhiteSpace ==
    {"\t", "\n", "U+000B", "\f", "\r", " ", "U+0085", "U+00A0", "U+1680",
     "U+2000", "U+2001", "U+2002", "U+2003", "U+2004", "U+2005", "U+2006",
     "U+2007", "U+2008", "U+2009", "U+200A", "U+2028", "U+2029", "U+202F",
     "U+205F", "U+3000"}

Lower ==
    <<"a","b","c","d","e","f","g","h","i","j","k","l","m",
      "n","o","p","q","r","s","t","u","v","w","x","y","z">>

Upper ==
    <<"A","B","C","D","E","F","G","H","I","J","K","L","M",
      "N","O","P","Q","R","S","T","U","V","W","X","Y","Z">>

Digits == <<"0","1","2","3","4","5","6","7","8","9">>

SetMin(S) == CHOOSE m \in S : \A x \in S : m <= x

SetMax(S) == CHOOSE m \in S : \A x \in S : x <= m

CStr(bytes) == [isNull |-> FALSE, bytes |-> bytes]

NullPtr == [isNull |-> TRUE, bytes |-> <<>>]

\* CStr::to_str: fails on bytes that are not UTF-8
to_str(bytes) ==
    IF \E i \in 1..Len(bytes) : bytes[i] = InvalidByte
    THEN [ok |-> FALSE, s |-> <<>>]
    ELSE [ok |-> TRUE, s |-> bytes]

\* str::trim: strips leading and trailing white space
trim(s) ==
    LET keep == {i \in 1..Len(s) : s[i] \notin WhiteSpace}
    IN  IF keep = {} THEN <<>> ELSE SubSeq(s, SetMin(keep), SetMax(keep))

starts_with(s, c) == Len(s) >= 1 /\ s[1] = c

ends_with(s, c) == Len(s) >= 1 /\ s[Len(s)] = c

\* find returning the last occurrence, as str::rfind does
find_last(s, c) ==
    LET hits == {i \in 1..Len(s) : s[i] = c}
    IN  IF hits = {} THEN [some |-> FALSE, idx |-> 0]
        ELSE [some |-> TRUE, idx |-> SetMax(hits) - 1]

\* str::find(char): 0-based index of the first occurrence
find(s, c) ==
    LET hits == {i \in 1..Len(s) : s[i] = c}
    IN  IF hits = {} THEN [some |-> FALSE, idx |-> 0]
        ELSE [some |-> TRUE, idx |-> SetMin(hits) - 1]

\* &s[a..b] with 0-based a, b: panics when out of range
slice(s, a, b) ==
    IF 0 <= a /\ a <= b /\ b <= Len(s)
    THEN [panic |-> FALSE, s |-> SubSeq(s, a + 1, b)]
    ELSE [panic |-> TRUE, s |-> <<>>]

\* The characters outside ASCII that char::to_uppercase changes, each with
\* its uppercase: the Uppercase_Mapping of the Unicode character database,
\* version 17.0 (UnicodeData.txt and the unconditional entries of
\* SpecialCasing.txt), which is one to three characters long.
UpperPairs ==
    { <<"U+00B5", <<"U+039C">>>>, <<"U+00DF", <<"S","S">>>>, <<"U+00E0", <<"U+00C0">>>>,
      <<"U+00E1", <<"U+00C1">>>>, <<"U+00E2", <<"U+00C2">>>>, <<"U+00E3", <<"U+00C3">>>>,
      <<"U+00E4", <<"U+00C4">>>>, <<"U+00E5", <<"U+00C5">>>>, <<"U+00E6", <<"U+00C6">>>>,
      <<"U+00E7", <<"U+00C7">>>>, <<"U+00E8", <<"U+00C8">>>>, <<"U+00E9", <<"U+00C9">>>>,
      <<"U+00EA", <<"U+00CA">>>>, <<"U+00EB", <<"U+00CB">>>>, <<"U+00EC", <<"U+00CC">>>>,
      <<"U+00ED", <<"U+00CD">>>>, <<"U+00EE", <<"U+00CE">>>>, <<"U+00EF", <<"U+00CF">>>>,
      <<"U+00F0", <<"U+00D0">>>>, <<"U+00F1", <<"U+00D1">>>>, <<"U+00F2", <<"U+00D2">>>>,
      <<"U+00F3", <<"U+00D3">>>>, <<"U+00F4", <<"U+00D4">>>>, <<"U+00F5", <<"U+00D5">>>>,
      <<"U+00F6", <<"U+00D6">>>>, <<"U+00F8", <<"U+00D8">>>>, <<"U+00F9", <<"U+00D9">>>>,
      <<"U+00FA", <<"U+00DA">>>>, <<"U+00FB", <<"U+00DB">>>>, <<"U+00FC", <<"U+00DC">>>>,
      <<"U+00FD", <<"U+00DD">>>>, <<"U+00FE", <<"U+00DE">>>>, <<"U+00FF", <<"U+0178">>>>,
      <<"U+0101", <<"U+0100">>>>, <<"U+0103", <<"U+0102">>>>, <<"U+0105", <<"U+0104">>>>,
      <<"U+0107", <<"U+0106">>>>, <<"U+0109", <<"U+0108">>>>, <<"U+010B", <<"U+010A">>>>,
      <<"U+010D", <<"U+010C">>>>, <<"U+010F", <<"U+010E">>>>, <<"U+0111", <<"U+0110">>>>,
      <<"U+0113", <<"U+0112">>>>, <<"U+0115", <<"U+0114">>>>, <<"U+0117", <<"U+0116">>>>,
      <<"U+0119", <<"U+0118">>>>, <<"U+011B", <<"U+011A">>>>, <<"U+011D", <<"U+011C">>>>,
      <<"U+011F", <<"U+011E">>>>, <<"U+0121", <<"U+0120">>>>, <<"U+0123", <<"U+0122">>>>,
      <<"U+0125", <<"U+0124">>>>, <<"U+0127", <<"U+0126">>>>, <<"U+0129", <<"U+0128">>>>,
      <<"U+012B", <<"U+012A">>>>, <<"U+012D", <<"U+012C">>>>, <<"U+012F", <<"U+012E">>>>,
      <<"U+0131", <<"I">>>>, <<"U+0133", <<"U+0132">>>>, <<"U+0135", <<"U+0134">>>>,
      <<"U+0137", <<"U+0136">>>>, <<"U+013A", <<"U+0139">>>>, <<"U+013C", <<"U+013B">>>>,
      <<"U+013E", <<"U+013D">>>>, <<"U+0140", <<"U+013F">>>>, <<"U+0142", <<"U+0141">>>>,
      <<"U+0144", <<"U+0143">>>>, <<"U+0146", <<"U+0145">>>>, <<"U+0148", <<"U+0147">>>>,
      <<"U+0149", <<"U+02BC","N">>>>, <<"U+014B", <<"U+014A">>>>, <<"U+014D", <<"U+014C">>>>,
      <<"U+014F", <<"U+014E">>>>, <<"U+0151", <<"U+0150">>>>, <<"U+0153", <<"U+0152">>>>,
      <<"U+0155", <<"U+0154">>>>, <<"U+0157", <<"U+0156">>>>, <<"U+0159", <<"U+0158">>>>,
      <<"U+015B", <<"U+015A">>>>, <<"U+015D", <<"U+015C">>>>, <<"U+015F", <<"U+015E">>>>,
      <<"U+0161", <<"U+0160">>>>, <<"U+0163", <<"U+0162">>>>, <<"U+0165", <<"U+0164">>>>,
      <<"U+0167", <<"U+0166">>>>, <<"U+0169", <<"U+0168">>>>, <<"U+016B", <<"U+016A">>>>,
      <<"U+016D", <<"U+016C">>>>, <<"U+016F", <<"U+016E">>>>, <<"U+0171", <<"U+0170">>>>,
      <<"U+0173", <<"U+0172">>>>, <<"U+0175", <<"U+0174">>>>, <<"U+0177", <<"U+0176">>>>,
      <<"U+017A", <<"U+0179">>>>, <<"U+017C", <<"U+017B">>>>, <<"U+017E", <<"U+017D">>>>,
      <<"U+017F", <<"S">>>>, <<"U+0180", <<"U+0243">>>>, <<"U+0183", <<"U+0182">>>>,
      <<"U+0185", <<"U+0184">>>>, <<"U+0188", <<"U+0187">>>>, <<"U+018C", <<"U+018B">>>>,
      <<"U+0192", <<"U+0191">>>>, <<"U+0195", <<"U+01F6">>>>, <<"U+0199", <<"U+0198">>>>,
      <<"U+019A", <<"U+023D">>>>, <<"U+019B", <<"U+A7DC">>>>, <<"U+019E", <<"U+0220">>>>,
      <<"U+01A1", <<"U+01A0">>>>, <<"U+01A3", <<"U+01A2">>>>, <<"U+01A5", <<"U+01A4">>>>,
      <<"U+01A8", <<"U+01A7">>>>, <<"U+01AD", <<"U+01AC">>>>, <<"U+01B0", <<"U+01AF">>>>,
      <<"U+01B4", <<"U+01B3">>>>, <<"U+01B6", <<"U+01B5">>>>, <<"U+01B9", <<"U+01B8">>>>,
      <<"U+01BD", <<"U+01BC">>>>, <<"U+01BF", <<"U+01F7">>>>, <<"U+01C5", <<"U+01C4">>>>,
      <<"U+01C6", <<"U+01C4">>>>, <<"U+01C8", <<"U+01C7">>>>, <<"U+01C9", <<"U+01C7">>>>,
      <<"U+01CB", <<"U+01CA">>>>, <<"U+01CC", <<"U+01CA">>>>, <<"U+01CE", <<"U+01CD">>>>,
      <<"U+01D0", <<"U+01CF">>>>, <<"U+01D2", <<"U+01D1">>>>, <<"U+01D4", <<"U+01D3">>>>,
      <<"U+01D6", <<"U+01D5">>>>, <<"U+01D8", <<"U+01D7">>>>, <<"U+01DA", <<"U+01D9">>>>,
      <<"U+01DC", <<"U+01DB">>>>, <<"U+01DD", <<"U+018E">>>>, <<"U+01DF", <<"U+01DE">>>>,
      <<"U+01E1", <<"U+01E0">>>>, <<"U+01E3", <<"U+01E2">>>>, <<"U+01E5", <<"U+01E4">>>>,
      <<"U+01E7", <<"U+01E6">>>>, <<"U+01E9", <<"U+01E8">>>>, <<"U+01EB", <<"U+01EA">>>>,
      <<"U+01ED", <<"U+01EC">>>>, <<"U+01EF", <<"U+01EE">>>>, <<"U+01F0", <<"J","U+030C">>>>,
      <<"U+01F2", <<"U+01F1">>>>, <<"U+01F3", <<"U+01F1">>>>, <<"U+01F5", <<"U+01F4">>>>,
      <<"U+01F9", <<"U+01F8">>>>, <<"U+01FB", <<"U+01FA">>>>, <<"U+01FD", <<"U+01FC">>>>,
      <<"U+01FF", <<"U+01FE">>>>, <<"U+0201", <<"U+0200">>>>, <<"U+0203", <<"U+0202">>>>,
      <<"U+0205", <<"U+0204">>>>, <<"U+0207", <<"U+0206">>>>, <<"U+0209", <<"U+0208">>>>,
      <<"U+020B", <<"U+020A">>>>, <<"U+020D", <<"U+020C">>>>, <<"U+020F", <<"U+020E">>>>,
      <<"U+0211", <<"U+0210">>>>, <<"U+0213", <<"U+0212">>>>, <<"U+0215", <<"U+0214">>>>,
      <<"U+0217", <<"U+0216">>>>, <<"U+0219", <<"U+0218">>>>, <<"U+021B", <<"U+021A">>>>,
      <<"U+021D", <<"U+021C">>>>, <<"U+021F", <<"U+021E">>>>, <<"U+0223", <<"U+0222">>>>,
      <<"U+0225", <<"U+0224">>>>, <<"U+0227", <<"U+0226">>>>, <<"U+0229", <<"U+0228">>>>,
      <<"U+022B", <<"U+022A">>>>, <<"U+022D", <<"U+022C">>>>, <<"U+022F", <<"U+022E">>>>,
      <<"U+0231", <<"U+0230">>>>, <<"U+0233", <<"U+0232">>>>, <<"U+023C", <<"U+023B">>>>,
      <<"U+023F", <<"U+2C7E">>>>, <<"U+0240", <<"U+2C7F">>>>, <<"U+0242", <<"U+0241">>>>,
      <<"U+0247", <<"U+0246">>>>, <<"U+0249", <<"U+0248">>>>, <<"U+024B", <<"U+024A">>>>,
      <<"U+024D", <<"U+024C">>>>, <<"U+024F", <<"U+024E">>>>, <<"U+0250", <<"U+2C6F">>>>,
      <<"U+0251", <<"U+2C6D">>>>, <<"U+0252", <<"U+2C70">>>>, <<"U+0253", <<"U+0181">>>>,
      <<"U+0254", <<"U+0186">>>>, <<"U+0256", <<"U+0189">>>>, <<"U+0257", <<"U+018A">>>>,
      <<"U+0259", <<"U+018F">>>>, <<"U+025B", <<"U+0190">>>>, <<"U+025C", <<"U+A7AB">>>>,
      <<"U+0260", <<"U+0193">>>>, <<"U+0261", <<"U+A7AC">>>>, <<"U+0263", <<"U+0194">>>>,
      <<"U+0264", <<"U+A7CB">>>>, <<"U+0265", <<"U+A78D">>>>, <<"U+0266", <<"U+A7AA">>>>,
      <<"U+0268", <<"U+0197">>>>, <<"U+0269", <<"U+0196">>>>, <<"U+026A", <<"U+A7AE">>>>,
      <<"U+026B", <<"U+2C62">>>>, <<"U+026C", <<"U+A7AD">>>>, <<"U+026F", <<"U+019C">>>>,
      <<"U+0271", <<"U+2C6E">>>>, <<"U+0272", <<"U+019D">>>>, <<"U+0275", <<"U+019F">>>>,
      <<"U+027D", <<"U+2C64">>>>, <<"U+0280", <<"U+01A6">>>>, <<"U+0282", <<"U+A7C5">>>>,
      <<"U+0283", <<"U+01A9">>>>, <<"U+0287", <<"U+A7B1">>>>, <<"U+0288", <<"U+01AE">>>>,
      <<"U+0289", <<"U+0244">>>>, <<"U+028A", <<"U+01B1">>>>, <<"U+028B", <<"U+01B2">>>>,
      <<"U+028C", <<"U+0245">>>>, <<"U+0292", <<"U+01B7">>>>, <<"U+029D", <<"U+A7B2">>>>,
      <<"U+029E", <<"U+A7B0">>>>, <<"U+0345", <<"U+0399">>>>, <<"U+0371", <<"U+0370">>>>,
      <<"U+0373", <<"U+0372">>>>, <<"U+0377", <<"U+0376">>>>, <<"U+037B", <<"U+03FD">>>>,
      <<"U+037C", <<"U+03FE">>>>, <<"U+037D", <<"U+03FF">>>>, <<"U+0390", <<"U+0399","U+0308","U+0301">>>>,
      <<"U+03AC", <<"U+0386">>>>, <<"U+03AD", <<"U+0388">>>>, <<"U+03AE", <<"U+0389">>>>,
      <<"U+03AF", <<"U+038A">>>>, <<"U+03B0", <<"U+03A5","U+0308","U+0301">>>>, <<"U+03B1", <<"U+0391">>>>,
      <<"U+03B2", <<"U+0392">>>>, <<"U+03B3", <<"U+0393">>>>, <<"U+03B4", <<"U+0394">>>>,
      <<"U+03B5", <<"U+0395">>>>, <<"U+03B6", <<"U+0396">>>>, <<"U+03B7", <<"U+0397">>>>,
      <<"U+03B8", <<"U+0398">>>>, <<"U+03B9", <<"U+0399">>>>, <<"U+03BA", <<"U+039A">>>>,
      <<"U+03BB", <<"U+039B">>>>, <<"U+03BC", <<"U+039C">>>>, <<"U+03BD", <<"U+039D">>>>,
      <<"U+03BE", <<"U+039E">>>>, <<"U+03BF", <<"U+039F">>>>, <<"U+03C0", <<"U+03A0">>>>,
      <<"U+03C1", <<"U+03A1">>>>, <<"U+03C2", <<"U+03A3">>>>, <<"U+03C3", <<"U+03A3">>>>,
      <<"U+03C4", <<"U+03A4">>>>, <<"U+03C5", <<"U+03A5">>>>, <<"U+03C6", <<"U+03A6">>>>,
      <<"U+03C7", <<"U+03A7">>>>, <<"U+03C8", <<"U+03A8">>>>, <<"U+03C9", <<"U+03A9">>>>,
      <<"U+03CA", <<"U+03AA">>>>, <<"U+03CB", <<"U+03AB">>>>, <<"U+03CC", <<"U+038C">>>>,
      <<"U+03CD", <<"U+038E">>>>, <<"U+03CE", <<"U+038F">>>>, <<"U+03D0", <<"U+0392">>>>,
      <<"U+03D1", <<"U+0398">>>>, <<"U+03D5", <<"U+03A6">>>>, <<"U+03D6", <<"U+03A0">>>>,
      <<"U+03D7", <<"U+03CF">>>>, <<"U+03D9", <<"U+03D8">>>>, <<"U+03DB", <<"U+03DA">>>>,
      <<"U+03DD", <<"U+03DC">>>>, <<"U+03DF", <<"U+03DE">>>>, <<"U+03E1", <<"U+03E0">>>>,
      <<"U+03E3", <<"U+03E2">>>>, <<"U+03E5", <<"U+03E4">>>>, <<"U+03E7", <<"U+03E6">>>>,
      <<"U+03E9", <<"U+03E8">>>>, <<"U+03EB", <<"U+03EA">>>>, <<"U+03ED", <<"U+03EC">>>>,
      <<"U+03EF", <<"U+03EE">>>>, <<"U+03F0", <<"U+039A">>>>, <<"U+03F1", <<"U+03A1">>>>,
      <<"U+03F2", <<"U+03F9">>>>, <<"U+03F3", <<"U+037F">>>>, <<"U+03F5", <<"U+0395">>>>,
      <<"U+03F8", <<"U+03F7">>>>, <<"U+03FB", <<"U+03FA">>>>, <<"U+0430", <<"U+0410">>>>,
      <<"U+0431", <<"U+0411">>>>, <<"U+0432", <<"U+0412">>>>, <<"U+0433", <<"U+0413">>>>,
      <<"U+0434", <<"U+0414">>>>, <<"U+0435", <<"U+0415">>>>, <<"U+0436", <<"U+0416">>>>,
      <<"U+0437", <<"U+0417">>>>, <<"U+0438", <<"U+0418">>>>, <<"U+0439", <<"U+0419">>>>,
      <<"U+043A", <<"U+041A">>>>, <<"U+043B", <<"U+041B">>>>, <<"U+043C", <<"U+041C">>>>,
      <<"U+043D", <<"U+041D">>>>, <<"U+043E", <<"U+041E">>>>, <<"U+043F", <<"U+041F">>>>,
      <<"U+0440", <<"U+0420">>>>, <<"U+0441", <<"U+0421">>>>, <<"U+0442", <<"U+0422">>>>,
      <<"U+0443", <<"U+0423">>>>, <<"U+0444", <<"U+0424">>>>, <<"U+0445", <<"U+0425">>>>,
      <<"U+0446", <<"U+0426">>>>, <<"U+0447", <<"U+0427">>>>, <<"U+0448", <<"U+0428">>>>,
      <<"U+0449", <<"U+0429">>>>, <<"U+044A", <<"U+042A">>>>, <<"U+044B", <<"U+042B">>>>,
      <<"U+044C", <<"U+042C">>>>, <<"U+044D", <<"U+042D">>>>, <<"U+044E", <<"U+042E">>>>,
      <<"U+044F", <<"U+042F">>>>, <<"U+0450", <<"U+0400">>>>, <<"U+0451", <<"U+0401">>>>,
      <<"U+0452", <<"U+0402">>>>, <<"U+0453", <<"U+0403">>>>, <<"U+0454", <<"U+0404">>>>,
      <<"U+0455", <<"U+0405">>>>, <<"U+0456", <<"U+0406">>>>, <<"U+0457", <<"U+0407">>>>,
      <<"U+0458", <<"U+0408">>>>, <<"U+0459", <<"U+0409">>>>, <<"U+045A", <<"U+040A">>>>,
      <<"U+045B", <<"U+040B">>>>, <<"U+045C", <<"U+040C">>>>, <<"U+045D", <<"U+040D">>>>,
      <<"U+045E", <<"U+040E">>>>, <<"U+045F", <<"U+040F">>>>, <<"U+0461", <<"U+0460">>>>,
      <<"U+0463", <<"U+0462">>>>, <<"U+0465", <<"U+0464">>>>, <<"U+0467", <<"U+0466">>>>,
      <<"U+0469", <<"U+0468">>>>, <<"U+046B", <<"U+046A">>>>, <<"U+046D", <<"U+046C">>>>,
      <<"U+046F", <<"U+046E">>>>, <<"U+0471", <<"U+0470">>>>, <<"U+0473", <<"U+0472">>>>,
      <<"U+0475", <<"U+0474">>>>, <<"U+0477", <<"U+0476">>>>, <<"U+0479", <<"U+0478">>>>,
      <<"U+047B", <<"U+047A">>>>, <<"U+047D", <<"U+047C">>>>, <<"U+047F", <<"U+047E">>>>,
      <<"U+0481", <<"U+0480">>>>, <<"U+048B", <<"U+048A">>>>, <<"U+048D", <<"U+048C">>>>,
      <<"U+048F", <<"U+048E">>>>, <<"U+0491", <<"U+0490">>>>, <<"U+0493", <<"U+0492">>>>,
      <<"U+0495", <<"U+0494">>>>, <<"U+0497", <<"U+0496">>>>, <<"U+0499", <<"U+0498">>>>,
      <<"U+049B", <<"U+049A">>>>, <<"U+049D", <<"U+049C">>>>, <<"U+049F", <<"U+049E">>>>,
      <<"U+04A1", <<"U+04A0">>>>, <<"U+04A3", <<"U+04A2">>>>, <<"U+04A5", <<"U+04A4">>>>,
      <<"U+04A7", <<"U+04A6">>>>, <<"U+04A9", <<"U+04A8">>>>, <<"U+04AB", <<"U+04AA">>>>,
      <<"U+04AD", <<"U+04AC">>>>, <<"U+04AF", <<"U+04AE">>>>, <<"U+04B1", <<"U+04B0">>>>,
      <<"U+04B3", <<"U+04B2">>>>, <<"U+04B5", <<"U+04B4">>>>, <<"U+04B7", <<"U+04B6">>>>,
      <<"U+04B9", <<"U+04B8">>>>, <<"U+04BB", <<"U+04BA">>>>, <<"U+04BD", <<"U+04BC">>>>,
      <<"U+04BF", <<"U+04BE">>>>, <<"U+04C2", <<"U+04C1">>>>, <<"U+04C4", <<"U+04C3">>>>,
      <<"U+04C6", <<"U+04C5">>>>, <<"U+04C8", <<"U+04C7">>>>, <<"U+04CA", <<"U+04C9">>>>,
      <<"U+04CC", <<"U+04CB">>>>, <<"U+04CE", <<"U+04CD">>>>, <<"U+04CF", <<"U+04C0">>>>,
      <<"U+04D1", <<"U+04D0">>>>, <<"U+04D3", <<"U+04D2">>>>, <<"U+04D5", <<"U+04D4">>>>,
      <<"U+04D7", <<"U+04D6">>>>, <<"U+04D9", <<"U+04D8">>>>, <<"U+04DB", <<"U+04DA">>>>,
      <<"U+04DD", <<"U+04DC">>>>, <<"U+04DF", <<"U+04DE">>>>, <<"U+04E1", <<"U+04E0">>>>,
      <<"U+04E3", <<"U+04E2">>>>, <<"U+04E5", <<"U+04E4">>>>, <<"U+04E7", <<"U+04E6">>>>,
      <<"U+04E9", <<"U+04E8">>>>, <<"U+04EB", <<"U+04EA">>>>, <<"U+04ED", <<"U+04EC">>>>,
      <<"U+04EF", <<"U+04EE">>>>, <<"U+04F1", <<"U+04F0">>>>, <<"U+04F3", <<"U+04F2">>>>,
      <<"U+04F5", <<"U+04F4">>>>, <<"U+04F7", <<"U+04F6">>>>, <<"U+04F9", <<"U+04F8">>>>,
      <<"U+04FB", <<"U+04FA">>>>, <<"U+04FD", <<"U+04FC">>>>, <<"U+04FF", <<"U+04FE">>>>,
      <<"U+0501", <<"U+0500">>>>, <<"U+0503", <<"U+0502">>>>, <<"U+0505", <<"U+0504">>>>,
      <<"U+0507", <<"U+0506">>>>, <<"U+0509", <<"U+0508">>>>, <<"U+050B", <<"U+050A">>>>,
      <<"U+050D", <<"U+050C">>>>, <<"U+050F", <<"U+050E">>>>, <<"U+0511", <<"U+0510">>>>,
      <<"U+0513", <<"U+0512">>>>, <<"U+0515", <<"U+0514">>>>, <<"U+0517", <<"U+0516">>>>,
      <<"U+0519", <<"U+0518">>>>, <<"U+051B", <<"U+051A">>>>, <<"U+051D", <<"U+051C">>>>,
      <<"U+051F", <<"U+051E">>>>, <<"U+0521", <<"U+0520">>>>, <<"U+0523", <<"U+0522">>>>,
      <<"U+0525", <<"U+0524">>>>, <<"U+0527", <<"U+0526">>>>, <<"U+0529", <<"U+0528">>>>,
      <<"U+052B", <<"U+052A">>>>, <<"U+052D", <<"U+052C">>>>, <<"U+052F", <<"U+052E">>>>,
      <<"U+0561", <<"U+0531">>>>, <<"U+0562", <<"U+0532">>>>, <<"U+0563", <<"U+0533">>>>,
      <<"U+0564", <<"U+0534">>>>, <<"U+0565", <<"U+0535">>>>, <<"U+0566", <<"U+0536">>>>,
      <<"U+0567", <<"U+0537">>>>, <<"U+0568", <<"U+0538">>>>, <<"U+0569", <<"U+0539">>>>,
      <<"U+056A", <<"U+053A">>>>, <<"U+056B", <<"U+053B">>>>, <<"U+056C", <<"U+053C">>>>,
      <<"U+056D", <<"U+053D">>>>, <<"U+056E", <<"U+053E">>>>, <<"U+056F", <<"U+053F">>>>,
      <<"U+0570", <<"U+0540">>>>, <<"U+0571", <<"U+0541">>>>, <<"U+0572", <<"U+0542">>>>,
      <<"U+0573", <<"U+0543">>>>, <<"U+0574", <<"U+0544">>>>, <<"U+0575", <<"U+0545">>>>,
      <<"U+0576", <<"U+0546">>>>, <<"U+0577", <<"U+0547">>>>, <<"U+0578", <<"U+0548">>>>,
      <<"U+0579", <<"U+0549">>>>, <<"U+057A", <<"U+054A">>>>, <<"U+057B", <<"U+054B">>>>,
      <<"U+057C", <<"U+054C">>>>, <<"U+057D", <<"U+054D">>>>, <<"U+057E", <<"U+054E">>>>,
      <<"U+057F", <<"U+054F">>>>, <<"U+0580", <<"U+0550">>>>, <<"U+0581", <<"U+0551">>>>,
      <<"U+0582", <<"U+0552">>>>, <<"U+0583", <<"U+0553">>>>, <<"U+0584", <<"U+0554">>>>,
      <<"U+0585", <<"U+0555">>>>, <<"U+0586", <<"U+0556">>>>, <<"U+0587", <<"U+0535","U+0552">>>>,
      <<"U+10D0", <<"U+1C90">>>>, <<"U+10D1", <<"U+1C91">>>>, <<"U+10D2", <<"U+1C92">>>>,
      <<"U+10D3", <<"U+1C93">>>>, <<"U+10D4", <<"U+1C94">>>>, <<"U+10D5", <<"U+1C95">>>>,
      <<"U+10D6", <<"U+1C96">>>>, <<"U+10D7", <<"U+1C97">>>>, <<"U+10D8", <<"U+1C98">>>>,
      <<"U+10D9", <<"U+1C99">>>>, <<"U+10DA", <<"U+1C9A">>>>, <<"U+10DB", <<"U+1C9B">>>>,
      <<"U+10DC", <<"U+1C9C">>>>, <<"U+10DD", <<"U+1C9D">>>>, <<"U+10DE", <<"U+1C9E">>>>,
      <<"U+10DF", <<"U+1C9F">>>>, <<"U+10E0", <<"U+1CA0">>>>, <<"U+10E1", <<"U+1CA1">>>>,
      <<"U+10E2", <<"U+1CA2">>>>, <<"U+10E3", <<"U+1CA3">>>>, <<"U+10E4", <<"U+1CA4">>>>,
      <<"U+10E5", <<"U+1CA5">>>>, <<"U+10E6", <<"U+1CA6">>>>, <<"U+10E7", <<"U+1CA7">>>>,
      <<"U+10E8", <<"U+1CA8">>>>, <<"U+10E9", <<"U+1CA9">>>>, <<"U+10EA", <<"U+1CAA">>>>,
      <<"U+10EB", <<"U+1CAB">>>>, <<"U+10EC", <<"U+1CAC">>>>, <<"U+10ED", <<"U+1CAD">>>>,
      <<"U+10EE", <<"U+1CAE">>>>, <<"U+10EF", <<"U+1CAF">>>>, <<"U+10F0", <<"U+1CB0">>>>,
      <<"U+10F1", <<"U+1CB1">>>>, <<"U+10F2", <<"U+1CB2">>>>, <<"U+10F3", <<"U+1CB3">>>>,
      <<"U+10F4", <<"U+1CB4">>>>, <<"U+10F5", <<"U+1CB5">>>>, <<"U+10F6", <<"U+1CB6">>>>,
      <<"U+10F7", <<"U+1CB7">>>>, <<"U+10F8", <<"U+1CB8">>>>, <<"U+10F9", <<"U+1CB9">>>>,
      <<"U+10FA", <<"U+1CBA">>>>, <<"U+10FD", <<"U+1CBD">>>>, <<"U+10FE", <<"U+1CBE">>>>,
      <<"U+10FF", <<"U+1CBF">>>>, <<"U+13F8", <<"U+13F0">>>>, <<"U+13F9", <<"U+13F1">>>>,
      <<"U+13FA", <<"U+13F2">>>>, <<"U+13FB", <<"U+13F3">>>>, <<"U+13FC", <<"U+13F4">>>>,
      <<"U+13FD", <<"U+13F5">>>>, <<"U+1C80", <<"U+0412">>>>, <<"U+1C81", <<"U+0414">>>>,
      <<"U+1C82", <<"U+041E">>>>, <<"U+1C83", <<"U+0421">>>>, <<"U+1C84", <<"U+0422">>>>,
      <<"U+1C85", <<"U+0422">>>>, <<"U+1C86", <<"U+042A">>>>, <<"U+1C87", <<"U+0462">>>>,
      <<"U+1C88", <<"U+A64A">>>>, <<"U+1C8A", <<"U+1C89">>>>, <<"U+1D79", <<"U+A77D">>>>,
      <<"U+1D7D", <<"U+2C63">>>>, <<"U+1D8E", <<"U+A7C6">>>>, <<"U+1E01", <<"U+1E00">>>>,
      <<"U+1E03", <<"U+1E02">>>>, <<"U+1E05", <<"U+1E04">>>>, <<"U+1E07", <<"U+1E06">>>>,
      <<"U+1E09", <<"U+1E08">>>>, <<"U+1E0B", <<"U+1E0A">>>>, <<"U+1E0D", <<"U+1E0C">>>>,
      <<"U+1E0F", <<"U+1E0E">>>>, <<"U+1E11", <<"U+1E10">>>>, <<"U+1E13", <<"U+1E12">>>>,
      <<"U+1E15", <<"U+1E14">>>>, <<"U+1E17", <<"U+1E16">>>>, <<"U+1E19", <<"U+1E18">>>>,
      <<"U+1E1B", <<"U+1E1A">>>>, <<"U+1E1D", <<"U+1E1C">>>>, <<"U+1E1F", <<"U+1E1E">>>>,
      <<"U+1E21", <<"U+1E20">>>>, <<"U+1E23", <<"U+1E22">>>>, <<"U+1E25", <<"U+1E24">>>>,
      <<"U+1E27", <<"U+1E26">>>>, <<"U+1E29", <<"U+1E28">>>>, <<"U+1E2B", <<"U+1E2A">>>>,
      <<"U+1E2D", <<"U+1E2C">>>>, <<"U+1E2F", <<"U+1E2E">>>>, <<"U+1E31", <<"U+1E30">>>>,
      <<"U+1E33", <<"U+1E32">>>>, <<"U+1E35", <<"U+1E34">>>>, <<"U+1E37", <<"U+1E36">>>>,
      <<"U+1E39", <<"U+1E38">>>>, <<"U+1E3B", <<"U+1E3A">>>>, <<"U+1E3D", <<"U+1E3C">>>>,
      <<"U+1E3F", <<"U+1E3E">>>>, <<"U+1E41", <<"U+1E40">>>>, <<"U+1E43", <<"U+1E42">>>>,
      <<"U+1E45", <<"U+1E44">>>>, <<"U+1E47", <<"U+1E46">>>>, <<"U+1E49", <<"U+1E48">>>>,
      <<"U+1E4B", <<"U+1E4A">>>>, <<"U+1E4D", <<"U+1E4C">>>>, <<"U+1E4F", <<"U+1E4E">>>>,
      <<"U+1E51", <<"U+1E50">>>>, <<"U+1E53", <<"U+1E52">>>>, <<"U+1E55", <<"U+1E54">>>>,
      <<"U+1E57", <<"U+1E56">>>>, <<"U+1E59", <<"U+1E58">>>>, <<"U+1E5B", <<"U+1E5A">>>>,
      <<"U+1E5D", <<"U+1E5C">>>>, <<"U+1E5F", <<"U+1E5E">>>>, <<"U+1E61", <<"U+1E60">>>>,
      <<"U+1E63", <<"U+1E62">>>>, <<"U+1E65", <<"U+1E64">>>>, <<"U+1E67", <<"U+1E66">>>>,
      <<"U+1E69", <<"U+1E68">>>>, <<"U+1E6B", <<"U+1E6A">>>>, <<"U+1E6D", <<"U+1E6C">>>>,
      <<"U+1E6F", <<"U+1E6E">>>>, <<"U+1E71", <<"U+1E70">>>>, <<"U+1E73", <<"U+1E72">>>>,
      <<"U+1E75", <<"U+1E74">>>>, <<"U+1E77", <<"U+1E76">>>>, <<"U+1E79", <<"U+1E78">>>>,
      <<"U+1E7B", <<"U+1E7A">>>>, <<"U+1E7D", <<"U+1E7C">>>>, <<"U+1E7F", <<"U+1E7E">>>>,
      <<"U+1E81", <<"U+1E80">>>>, <<"U+1E83", <<"U+1E82">>>>, <<"U+1E85", <<"U+1E84">>>>,
      <<"U+1E87", <<"U+1E86">>>>, <<"U+1E89", <<"U+1E88">>>>, <<"U+1E8B", <<"U+1E8A">>>>,
      <<"U+1E8D", <<"U+1E8C">>>>, <<"U+1E8F", <<"U+1E8E">>>>, <<"U+1E91", <<"U+1E90">>>>,
      <<"U+1E93", <<"U+1E92">>>>, <<"U+1E95", <<"U+1E94">>>>, <<"U+1E96", <<"H","U+0331">>>>,
      <<"U+1E97", <<"T","U+0308">>>>, <<"U+1E98", <<"W","U+030A">>>>, <<"U+1E99", <<"Y","U+030A">>>>,
      <<"U+1E9A", <<"A","U+02BE">>>>, <<"U+1E9B", <<"U+1E60">>>>, <<"U+1EA1", <<"U+1EA0">>>>,
      <<"U+1EA3", <<"U+1EA2">>>>, <<"U+1EA5", <<"U+1EA4">>>>, <<"U+1EA7", <<"U+1EA6">>>>,
      <<"U+1EA9", <<"U+1EA8">>>>, <<"U+1EAB", <<"U+1EAA">>>>, <<"U+1EAD", <<"U+1EAC">>>>,
      <<"U+1EAF", <<"U+1EAE">>>>, <<"U+1EB1", <<"U+1EB0">>>>, <<"U+1EB3", <<"U+1EB2">>>>,
      <<"U+1EB5", <<"U+1EB4">>>>, <<"U+1EB7", <<"U+1EB6">>>>, <<"U+1EB9", <<"U+1EB8">>>>,
      <<"U+1EBB", <<"U+1EBA">>>>, <<"U+1EBD", <<"U+1EBC">>>>, <<"U+1EBF", <<"U+1EBE">>>>,
      <<"U+1EC1", <<"U+1EC0">>>>, <<"U+1EC3", <<"U+1EC2">>>>, <<"U+1EC5", <<"U+1EC4">>>>,
      <<"U+1EC7", <<"U+1EC6">>>>, <<"U+1EC9", <<"U+1EC8">>>>, <<"U+1ECB", <<"U+1ECA">>>>,
      <<"U+1ECD", <<"U+1ECC">>>>, <<"U+1ECF", <<"U+1ECE">>>>, <<"U+1ED1", <<"U+1ED0">>>>,
      <<"U+1ED3", <<"U+1ED2">>>>, <<"U+1ED5", <<"U+1ED4">>>>, <<"U+1ED7", <<"U+1ED6">>>>,
      <<"U+1ED9", <<"U+1ED8">>>>, <<"U+1EDB", <<"U+1EDA">>>>, <<"U+1EDD", <<"U+1EDC">>>>,
      <<"U+1EDF", <<"U+1EDE">>>>, <<"U+1EE1", <<"U+1EE0">>>>, <<"U+1EE3", <<"U+1EE2">>>>,
      <<"U+1EE5", <<"U+1EE4">>>>, <<"U+1EE7", <<"U+1EE6">>>>, <<"U+1EE9", <<"U+1EE8">>>>,
      <<"U+1EEB", <<"U+1EEA">>>>, <<"U+1EED", <<"U+1EEC">>>>, <<"U+1EEF", <<"U+1EEE">>>>,
      <<"U+1EF1", <<"U+1EF0">>>>, <<"U+1EF3", <<"U+1EF2">>>>, <<"U+1EF5", <<"U+1EF4">>>>,
      <<"U+1EF7", <<"U+1EF6">>>>, <<"U+1EF9", <<"U+1EF8">>>>, <<"U+1EFB", <<"U+1EFA">>>>,
      <<"U+1EFD", <<"U+1EFC">>>>, <<"U+1EFF", <<"U+1EFE">>>>, <<"U+1F00", <<"U+1F08">>>>,
      <<"U+1F01", <<"U+1F09">>>>, <<"U+1F02", <<"U+1F0A">>>>, <<"U+1F03", <<"U+1F0B">>>>,
      <<"U+1F04", <<"U+1F0C">>>>, <<"U+1F05", <<"U+1F0D">>>>, <<"U+1F06", <<"U+1F0E">>>>,
      <<"U+1F07", <<"U+1F0F">>>>, <<"U+1F10", <<"U+1F18">>>>, <<"U+1F11", <<"U+1F19">>>>,
      <<"U+1F12", <<"U+1F1A">>>>, <<"U+1F13", <<"U+1F1B">>>>, <<"U+1F14", <<"U+1F1C">>>>,
      <<"U+1F15", <<"U+1F1D">>>>, <<"U+1F20", <<"U+1F28">>>>, <<"U+1F21", <<"U+1F29">>>>,
      <<"U+1F22", <<"U+1F2A">>>>, <<"U+1F23", <<"U+1F2B">>>>, <<"U+1F24", <<"U+1F2C">>>>,
      <<"U+1F25", <<"U+1F2D">>>>, <<"U+1F26", <<"U+1F2E">>>>, <<"U+1F27", <<"U+1F2F">>>>,
      <<"U+1F30", <<"U+1F38">>>>, <<"U+1F31", <<"U+1F39">>>>, <<"U+1F32", <<"U+1F3A">>>>,
      <<"U+1F33", <<"U+1F3B">>>>, <<"U+1F34", <<"U+1F3C">>>>, <<"U+1F35", <<"U+1F3D">>>>,
      <<"U+1F36", <<"U+1F3E">>>>, <<"U+1F37", <<"U+1F3F">>>>, <<"U+1F40", <<"U+1F48">>>>,
      <<"U+1F41", <<"U+1F49">>>>, <<"U+1F42", <<"U+1F4A">>>>, <<"U+1F43", <<"U+1F4B">>>>,
      <<"U+1F44", <<"U+1F4C">>>>, <<"U+1F45", <<"U+1F4D">>>>, <<"U+1F50", <<"U+03A5","U+0313">>>>,
      <<"U+1F51", <<"U+1F59">>>>, <<"U+1F52", <<"U+03A5","U+0313","U+0300">>>>, <<"U+1F53", <<"U+1F5B">>>>,
      <<"U+1F54", <<"U+03A5","U+0313","U+0301">>>>, <<"U+1F55", <<"U+1F5D">>>>, <<"U+1F56", <<"U+03A5","U+0313","U+0342">>>>,
      <<"U+1F57", <<"U+1F5F">>>>, <<"U+1F60", <<"U+1F68">>>>, <<"U+1F61", <<"U+1F69">>>>,
      <<"U+1F62", <<"U+1F6A">>>>, <<"U+1F63", <<"U+1F6B">>>>, <<"U+1F64", <<"U+1F6C">>>>,
      <<"U+1F65", <<"U+1F6D">>>>, <<"U+1F66", <<"U+1F6E">>>>, <<"U+1F67", <<"U+1F6F">>>>,
      <<"U+1F70", <<"U+1FBA">>>>, <<"U+1F71", <<"U+1FBB">>>>, <<"U+1F72", <<"U+1FC8">>>>,
      <<"U+1F73", <<"U+1FC9">>>>, <<"U+1F74", <<"U+1FCA">>>>, <<"U+1F75", <<"U+1FCB">>>>,
      <<"U+1F76", <<"U+1FDA">>>>, <<"U+1F77", <<"U+1FDB">>>>, <<"U+1F78", <<"U+1FF8">>>>,
      <<"U+1F79", <<"U+1FF9">>>>, <<"U+1F7A", <<"U+1FEA">>>>, <<"U+1F7B", <<"U+1FEB">>>>,
      <<"U+1F7C", <<"U+1FFA">>>>, <<"U+1F7D", <<"U+1FFB">>>>, <<"U+1F80", <<"U+1F08","U+0399">>>>,
      <<"U+1F81", <<"U+1F09","U+0399">>>>, <<"U+1F82", <<"U+1F0A","U+0399">>>>, <<"U+1F83", <<"U+1F0B","U+0399">>>>,
      <<"U+1F84", <<"U+1F0C","U+0399">>>>, <<"U+1F85", <<"U+1F0D","U+0399">>>>, <<"U+1F86", <<"U+1F0E","U+0399">>>>,
      <<"U+1F87", <<"U+1F0F","U+0399">>>>, <<"U+1F88", <<"U+1F08","U+0399">>>>, <<"U+1F89", <<"U+1F09","U+0399">>>>,
      <<"U+1F8A", <<"U+1F0A","U+0399">>>>, <<"U+1F8B", <<"U+1F0B","U+0399">>>>, <<"U+1F8C", <<"U+1F0C","U+0399">>>>,
      <<"U+1F8D", <<"U+1F0D","U+0399">>>>, <<"U+1F8E", <<"U+1F0E","U+0399">>>>, <<"U+1F8F", <<"U+1F0F","U+0399">>>>,
      <<"U+1F90", <<"U+1F28","U+0399">>>>, <<"U+1F91", <<"U+1F29","U+0399">>>>, <<"U+1F92", <<"U+1F2A","U+0399">>>>,
      <<"U+1F93", <<"U+1F2B","U+0399">>>>, <<"U+1F94", <<"U+1F2C","U+0399">>>>, <<"U+1F95", <<"U+1F2D","U+0399">>>>,
      <<"U+1F96", <<"U+1F2E","U+0399">>>>, <<"U+1F97", <<"U+1F2F","U+0399">>>>, <<"U+1F98", <<"U+1F28","U+0399">>>>,
      <<"U+1F99", <<"U+1F29","U+0399">>>>, <<"U+1F9A", <<"U+1F2A","U+0399">>>>, <<"U+1F9B", <<"U+1F2B","U+0399">>>>,
      <<"U+1F9C", <<"U+1F2C","U+0399">>>>, <<"U+1F9D", <<"U+1F2D","U+0399">>>>, <<"U+1F9E", <<"U+1F2E","U+0399">>>>,
      <<"U+1F9F", <<"U+1F2F","U+0399">>>>, <<"U+1FA0", <<"U+1F68","U+0399">>>>, <<"U+1FA1", <<"U+1F69","U+0399">>>>,
      <<"U+1FA2", <<"U+1F6A","U+0399">>>>, <<"U+1FA3", <<"U+1F6B","U+0399">>>>, <<"U+1FA4", <<"U+1F6C","U+0399">>>>,
      <<"U+1FA5", <<"U+1F6D","U+0399">>>>, <<"U+1FA6", <<"U+1F6E","U+0399">>>>, <<"U+1FA7", <<"U+1F6F","U+0399">>>>,
      <<"U+1FA8", <<"U+1F68","U+0399">>>>, <<"U+1FA9", <<"U+1F69","U+0399">>>>, <<"U+1FAA", <<"U+1F6A","U+0399">>>>,
      <<"U+1FAB", <<"U+1F6B","U+0399">>>>, <<"U+1FAC", <<"U+1F6C","U+0399">>>>, <<"U+1FAD", <<"U+1F6D","U+0399">>>>,
      <<"U+1FAE", <<"U+1F6E","U+0399">>>>, <<"U+1FAF", <<"U+1F6F","U+0399">>>>, <<"U+1FB0", <<"U+1FB8">>>>,
      <<"U+1FB1", <<"U+1FB9">>>>, <<"U+1FB2", <<"U+1FBA","U+0399">>>>, <<"U+1FB3", <<"U+0391","U+0399">>>>,
      <<"U+1FB4", <<"U+0386","U+0399">>>>, <<"U+1FB6", <<"U+0391","U+0342">>>>, <<"U+1FB7", <<"U+0391","U+0342","U+0399">>>>,
      <<"U+1FBC", <<"U+0391","U+0399">>>>, <<"U+1FBE", <<"U+0399">>>>, <<"U+1FC2", <<"U+1FCA","U+0399">>>>,
      <<"U+1FC3", <<"U+0397","U+0399">>>>, <<"U+1FC4", <<"U+0389","U+0399">>>>, <<"U+1FC6", <<"U+0397","U+0342">>>>,
      <<"U+1FC7", <<"U+0397","U+0342","U+0399">>>>, <<"U+1FCC", <<"U+0397","U+0399">>>>, <<"U+1FD0", <<"U+1FD8">>>>,
      <<"U+1FD1", <<"U+1FD9">>>>, <<"U+1FD2", <<"U+0399","U+0308","U+0300">>>>, <<"U+1FD3", <<"U+0399","U+0308","U+0301">>>>,
      <<"U+1FD6", <<"U+0399","U+0342">>>>, <<"U+1FD7", <<"U+0399","U+0308","U+0342">>>>, <<"U+1FE0", <<"U+1FE8">>>>,
      <<"U+1FE1", <<"U+1FE9">>>>, <<"U+1FE2", <<"U+03A5","U+0308","U+0300">>>>, <<"U+1FE3", <<"U+03A5","U+0308","U+0301">>>>,
      <<"U+1FE4", <<"U+03A1","U+0313">>>>, <<"U+1FE5", <<"U+1FEC">>>>, <<"U+1FE6", <<"U+03A5","U+0342">>>>,
      <<"U+1FE7", <<"U+03A5","U+0308","U+0342">>>>, <<"U+1FF2", <<"U+1FFA","U+0399">>>>, <<"U+1FF3", <<"U+03A9","U+0399">>>>,
      <<"U+1FF4", <<"U+038F","U+0399">>>>, <<"U+1FF6", <<"U+03A9","U+0342">>>>, <<"U+1FF7", <<"U+03A9","U+0342","U+0399">>>>,
      <<"U+1FFC", <<"U+03A9","U+0399">>>>, <<"U+214E", <<"U+2132">>>>, <<"U+2170", <<"U+2160">>>>,
      <<"U+2171", <<"U+2161">>>>, <<"U+2172", <<"U+2162">>>>, <<"U+2173", <<"U+2163">>>>,
      <<"U+2174", <<"U+2164">>>>, <<"U+2175", <<"U+2165">>>>, <<"U+2176", <<"U+2166">>>>,
      <<"U+2177", <<"U+2167">>>>, <<"U+2178", <<"U+2168">>>>, <<"U+2179", <<"U+2169">>>>,
      <<"U+217A", <<"U+216A">>>>, <<"U+217B", <<"U+216B">>>>, <<"U+217C", <<"U+216C">>>>,
      <<"U+217D", <<"U+216D">>>>, <<"U+217E", <<"U+216E">>>>, <<"U+217F", <<"U+216F">>>>,
      <<"U+2184", <<"U+2183">>>>, <<"U+24D0", <<"U+24B6">>>>, <<"U+24D1", <<"U+24B7">>>>,
      <<"U+24D2", <<"U+24B8">>>>, <<"U+24D3", <<"U+24B9">>>>, <<"U+24D4", <<"U+24BA">>>>,
      <<"U+24D5", <<"U+24BB">>>>, <<"U+24D6", <<"U+24BC">>>>, <<"U+24D7", <<"U+24BD">>>>,
      <<"U+24D8", <<"U+24BE">>>>, <<"U+24D9", <<"U+24BF">>>>, <<"U+24DA", <<"U+24C0">>>>,
      <<"U+24DB", <<"U+24C1">>>>, <<"U+24DC", <<"U+24C2">>>>, <<"U+24DD", <<"U+24C3">>>>,
      <<"U+24DE", <<"U+24C4">>>>, <<"U+24DF", <<"U+24C5">>>>, <<"U+24E0", <<"U+24C6">>>>,
      <<"U+24E1", <<"U+24C7">>>>, <<"U+24E2", <<"U+24C8">>>>, <<"U+24E3", <<"U+24C9">>>>,
      <<"U+24E4", <<"U+24CA">>>>, <<"U+24E5", <<"U+24CB">>>>, <<"U+24E6", <<"U+24CC">>>>,
      <<"U+24E7", <<"U+24CD">>>>, <<"U+24E8", <<"U+24CE">>>>, <<"U+24E9", <<"U+24CF">>>>,
      <<"U+2C30", <<"U+2C00">>>>, <<"U+2C31", <<"U+2C01">>>>, <<"U+2C32", <<"U+2C02">>>>,
      <<"U+2C33", <<"U+2C03">>>>, <<"U+2C34", <<"U+2C04">>>>, <<"U+2C35", <<"U+2C05">>>>,
      <<"U+2C36", <<"U+2C06">>>>, <<"U+2C37", <<"U+2C07">>>>, <<"U+2C38", <<"U+2C08">>>>,
      <<"U+2C39", <<"U+2C09">>>>, <<"U+2C3A", <<"U+2C0A">>>>, <<"U+2C3B", <<"U+2C0B">>>>,
      <<"U+2C3C", <<"U+2C0C">>>>, <<"U+2C3D", <<"U+2C0D">>>>, <<"U+2C3E", <<"U+2C0E">>>>,
      <<"U+2C3F", <<"U+2C0F">>>>, <<"U+2C40", <<"U+2C10">>>>, <<"U+2C41", <<"U+2C11">>>>,
      <<"U+2C42", <<"U+2C12">>>>, <<"U+2C43", <<"U+2C13">>>>, <<"U+2C44", <<"U+2C14">>>>,
      <<"U+2C45", <<"U+2C15">>>>, <<"U+2C46", <<"U+2C16">>>>, <<"U+2C47", <<"U+2C17">>>>,
      <<"U+2C48", <<"U+2C18">>>>, <<"U+2C49", <<"U+2C19">>>>, <<"U+2C4A", <<"U+2C1A">>>>,
      <<"U+2C4B", <<"U+2C1B">>>>, <<"U+2C4C", <<"U+2C1C">>>>, <<"U+2C4D", <<"U+2C1D">>>>,
      <<"U+2C4E", <<"U+2C1E">>>>, <<"U+2C4F", <<"U+2C1F">>>>, <<"U+2C50", <<"U+2C20">>>>,
      <<"U+2C51", <<"U+2C21">>>>, <<"U+2C52", <<"U+2C22">>>>, <<"U+2C53", <<"U+2C23">>>>,
      <<"U+2C54", <<"U+2C24">>>>, <<"U+2C55", <<"U+2C25">>>>, <<"U+2C56", <<"U+2C26">>>>,
      <<"U+2C57", <<"U+2C27">>>>, <<"U+2C58", <<"U+2C28">>>>, <<"U+2C59", <<"U+2C29">>>>,
      <<"U+2C5A", <<"U+2C2A">>>>, <<"U+2C5B", <<"U+2C2B">>>>, <<"U+2C5C", <<"U+2C2C">>>>,
      <<"U+2C5D", <<"U+2C2D">>>>, <<"U+2C5E", <<"U+2C2E">>>>, <<"U+2C5F", <<"U+2C2F">>>>,
      <<"U+2C61", <<"U+2C60">>>>, <<"U+2C65", <<"U+023A">>>>, <<"U+2C66", <<"U+023E">>>>,
      <<"U+2C68", <<"U+2C67">>>>, <<"U+2C6A", <<"U+2C69">>>>, <<"U+2C6C", <<"U+2C6B">>>>,
      <<"U+2C73", <<"U+2C72">>>>, <<"U+2C76", <<"U+2C75">>>>, <<"U+2C81", <<"U+2C80">>>>,
      <<"U+2C83", <<"U+2C82">>>>, <<"U+2C85", <<"U+2C84">>>>, <<"U+2C87", <<"U+2C86">>>>,
      <<"U+2C89", <<"U+2C88">>>>, <<"U+2C8B", <<"U+2C8A">>>>, <<"U+2C8D", <<"U+2C8C">>>>,
      <<"U+2C8F", <<"U+2C8E">>>>, <<"U+2C91", <<"U+2C90">>>>, <<"U+2C93", <<"U+2C92">>>>,
      <<"U+2C95", <<"U+2C94">>>>, <<"U+2C97", <<"U+2C96">>>>, <<"U+2C99", <<"U+2C98">>>>,
      <<"U+2C9B", <<"U+2C9A">>>>, <<"U+2C9D", <<"U+2C9C">>>>, <<"U+2C9F", <<"U+2C9E">>>>,
      <<"U+2CA1", <<"U+2CA0">>>>, <<"U+2CA3", <<"U+2CA2">>>>, <<"U+2CA5", <<"U+2CA4">>>>,
      <<"U+2CA7", <<"U+2CA6">>>>, <<"U+2CA9", <<"U+2CA8">>>>, <<"U+2CAB", <<"U+2CAA">>>>,
      <<"U+2CAD", <<"U+2CAC">>>>, <<"U+2CAF", <<"U+2CAE">>>>, <<"U+2CB1", <<"U+2CB0">>>>,
      <<"U+2CB3", <<"U+2CB2">>>>, <<"U+2CB5", <<"U+2CB4">>>>, <<"U+2CB7", <<"U+2CB6">>>>,
      <<"U+2CB9", <<"U+2CB8">>>>, <<"U+2CBB", <<"U+2CBA">>>>, <<"U+2CBD", <<"U+2CBC">>>>,
      <<"U+2CBF", <<"U+2CBE">>>>, <<"U+2CC1", <<"U+2CC0">>>>, <<"U+2CC3", <<"U+2CC2">>>>,
      <<"U+2CC5", <<"U+2CC4">>>>, <<"U+2CC7", <<"U+2CC6">>>>, <<"U+2CC9", <<"U+2CC8">>>>,
      <<"U+2CCB", <<"U+2CCA">>>>, <<"U+2CCD", <<"U+2CCC">>>>, <<"U+2CCF", <<"U+2CCE">>>>,
      <<"U+2CD1", <<"U+2CD0">>>>, <<"U+2CD3", <<"U+2CD2">>>>, <<"U+2CD5", <<"U+2CD4">>>>,
      <<"U+2CD7", <<"U+2CD6">>>>, <<"U+2CD9", <<"U+2CD8">>>>, <<"U+2CDB", <<"U+2CDA">>>>,
      <<"U+2CDD", <<"U+2CDC">>>>, <<"U+2CDF", <<"U+2CDE">>>>, <<"U+2CE1", <<"U+2CE0">>>>,
      <<"U+2CE3", <<"U+2CE2">>>>, <<"U+2CEC", <<"U+2CEB">>>>, <<"U+2CEE", <<"U+2CED">>>>,
      <<"U+2CF3", <<"U+2CF2">>>>, <<"U+2D00", <<"U+10A0">>>>, <<"U+2D01", <<"U+10A1">>>>,
      <<"U+2D02", <<"U+10A2">>>>, <<"U+2D03", <<"U+10A3">>>>, <<"U+2D04", <<"U+10A4">>>>,
      <<"U+2D05", <<"U+10A5">>>>, <<"U+2D06", <<"U+10A6">>>>, <<"U+2D07", <<"U+10A7">>>>,
      <<"U+2D08", <<"U+10A8">>>>, <<"U+2D09", <<"U+10A9">>>>, <<"U+2D0A", <<"U+10AA">>>>,
      <<"U+2D0B", <<"U+10AB">>>>, <<"U+2D0C", <<"U+10AC">>>>, <<"U+2D0D", <<"U+10AD">>>>,
      <<"U+2D0E", <<"U+10AE">>>>, <<"U+2D0F", <<"U+10AF">>>>, <<"U+2D10", <<"U+10B0">>>>,
      <<"U+2D11", <<"U+10B1">>>>, <<"U+2D12", <<"U+10B2">>>>, <<"U+2D13", <<"U+10B3">>>>,
      <<"U+2D14", <<"U+10B4">>>>, <<"U+2D15", <<"U+10B5">>>>, <<"U+2D16", <<"U+10B6">>>>,
      <<"U+2D17", <<"U+10B7">>>>, <<"U+2D18", <<"U+10B8">>>>, <<"U+2D19", <<"U+10B9">>>>,
      <<"U+2D1A", <<"U+10BA">>>>, <<"U+2D1B", <<"U+10BB">>>>, <<"U+2D1C", <<"U+10BC">>>>,
      <<"U+2D1D", <<"U+10BD">>>>, <<"U+2D1E", <<"U+10BE">>>>, <<"U+2D1F", <<"U+10BF">>>>,
      <<"U+2D20", <<"U+10C0">>>>, <<"U+2D21", <<"U+10C1">>>>, <<"U+2D22", <<"U+10C2">>>>,
      <<"U+2D23", <<"U+10C3">>>>, <<"U+2D24", <<"U+10C4">>>>, <<"U+2D25", <<"U+10C5">>>>,
      <<"U+2D27", <<"U+10C7">>>>, <<"U+2D2D", <<"U+10CD">>>>, <<"U+A641", <<"U+A640">>>>,
      <<"U+A643", <<"U+A642">>>>, <<"U+A645", <<"U+A644">>>>, <<"U+A647", <<"U+A646">>>>,
      <<"U+A649", <<"U+A648">>>>, <<"U+A64B", <<"U+A64A">>>>, <<"U+A64D", <<"U+A64C">>>>,
      <<"U+A64F", <<"U+A64E">>>>, <<"U+A651", <<"U+A650">>>>, <<"U+A653", <<"U+A652">>>>,
      <<"U+A655", <<"U+A654">>>>, <<"U+A657", <<"U+A656">>>>, <<"U+A659", <<"U+A658">>>>,
      <<"U+A65B", <<"U+A65A">>>>, <<"U+A65D", <<"U+A65C">>>>, <<"U+A65F", <<"U+A65E">>>>,
      <<"U+A661", <<"U+A660">>>>, <<"U+A663", <<"U+A662">>>>, <<"U+A665", <<"U+A664">>>>,
      <<"U+A667", <<"U+A666">>>>, <<"U+A669", <<"U+A668">>>>, <<"U+A66B", <<"U+A66A">>>>,
      <<"U+A66D", <<"U+A66C">>>>, <<"U+A681", <<"U+A680">>>>, <<"U+A683", <<"U+A682">>>>,
      <<"U+A685", <<"U+A684">>>>, <<"U+A687", <<"U+A686">>>>, <<"U+A689", <<"U+A688">>>>,
      <<"U+A68B", <<"U+A68A">>>>, <<"U+A68D", <<"U+A68C">>>>, <<"U+A68F", <<"U+A68E">>>>,
      <<"U+A691", <<"U+A690">>>>, <<"U+A693", <<"U+A692">>>>, <<"U+A695", <<"U+A694">>>>,
      <<"U+A697", <<"U+A696">>>>, <<"U+A699", <<"U+A698">>>>, <<"U+A69B", <<"U+A69A">>>>,
      <<"U+A723", <<"U+A722">>>>, <<"U+A725", <<"U+A724">>>>, <<"U+A727", <<"U+A726">>>>,
      <<"U+A729", <<"U+A728">>>>, <<"U+A72B", <<"U+A72A">>>>, <<"U+A72D", <<"U+A72C">>>>,
      <<"U+A72F", <<"U+A72E">>>>, <<"U+A733", <<"U+A732">>>>, <<"U+A735", <<"U+A734">>>>,
      <<"U+A737", <<"U+A736">>>>, <<"U+A739", <<"U+A738">>>>, <<"U+A73B", <<"U+A73A">>>>,
      <<"U+A73D", <<"U+A73C">>>>, <<"U+A73F", <<"U+A73E">>>>, <<"U+A741", <<"U+A740">>>>,
      <<"U+A743", <<"U+A742">>>>, <<"U+A745", <<"U+A744">>>>, <<"U+A747", <<"U+A746">>>>,
      <<"U+A749", <<"U+A748">>>>, <<"U+A74B", <<"U+A74A">>>>, <<"U+A74D", <<"U+A74C">>>>,
      <<"U+A74F", <<"U+A74E">>>>, <<"U+A751", <<"U+A750">>>>, <<"U+A753", <<"U+A752">>>>,
      <<"U+A755", <<"U+A754">>>>, <<"U+A757", <<"U+A756">>>>, <<"U+A759", <<"U+A758">>>>,
      <<"U+A75B", <<"U+A75A">>>>, <<"U+A75D", <<"U+A75C">>>>, <<"U+A75F", <<"U+A75E">>>>,
      <<"U+A761", <<"U+A760">>>>, <<"U+A763", <<"U+A762">>>>, <<"U+A765", <<"U+A764">>>>,
      <<"U+A767", <<"U+A766">>>>, <<"U+A769", <<"U+A768">>>>, <<"U+A76B", <<"U+A76A">>>>,
      <<"U+A76D", <<"U+A76C">>>>, <<"U+A76F", <<"U+A76E">>>>, <<"U+A77A", <<"U+A779">>>>,
      <<"U+A77C", <<"U+A77B">>>>, <<"U+A77F", <<"U+A77E">>>>, <<"U+A781", <<"U+A780">>>>,
      <<"U+A783", <<"U+A782">>>>, <<"U+A785", <<"U+A784">>>>, <<"U+A787", <<"U+A786">>>>,
      <<"U+A78C", <<"U+A78B">>>>, <<"U+A791", <<"U+A790">>>>, <<"U+A793", <<"U+A792">>>>,
      <<"U+A794", <<"U+A7C4">>>>, <<"U+A797", <<"U+A796">>>>, <<"U+A799", <<"U+A798">>>>,
      <<"U+A79B", <<"U+A79A">>>>, <<"U+A79D", <<"U+A79C">>>>, <<"U+A79F", <<"U+A79E">>>>,
      <<"U+A7A1", <<"U+A7A0">>>>, <<"U+A7A3", <<"U+A7A2">>>>, <<"U+A7A5", <<"U+A7A4">>>>,
      <<"U+A7A7", <<"U+A7A6">>>>, <<"U+A7A9", <<"U+A7A8">>>>, <<"U+A7B5", <<"U+A7B4">>>>,
      <<"U+A7B7", <<"U+A7B6">>>>, <<"U+A7B9", <<"U+A7B8">>>>, <<"U+A7BB", <<"U+A7BA">>>>,
      <<"U+A7BD", <<"U+A7BC">>>>, <<"U+A7BF", <<"U+A7BE">>>>, <<"U+A7C1", <<"U+A7C0">>>>,
      <<"U+A7C3", <<"U+A7C2">>>>, <<"U+A7C8", <<"U+A7C7">>>>, <<"U+A7CA", <<"U+A7C9">>>>,
      <<"U+A7CD", <<"U+A7CC">>>>, <<"U+A7CF", <<"U+A7CE">>>>, <<"U+A7D1", <<"U+A7D0">>>>,
      <<"U+A7D3", <<"U+A7D2">>>>, <<"U+A7D5", <<"U+A7D4">>>>, <<"U+A7D7", <<"U+A7D6">>>>,
      <<"U+A7D9", <<"U+A7D8">>>>, <<"U+A7DB", <<"U+A7DA">>>>, <<"U+A7F6", <<"U+A7F5">>>>,
      <<"U+AB53", <<"U+A7B3">>>>, <<"U+AB70", <<"U+13A0">>>>, <<"U+AB71", <<"U+13A1">>>>,
      <<"U+AB72", <<"U+13A2">>>>, <<"U+AB73", <<"U+13A3">>>>, <<"U+AB74", <<"U+13A4">>>>,
      <<"U+AB75", <<"U+13A5">>>>, <<"U+AB76", <<"U+13A6">>>>, <<"U+AB77", <<"U+13A7">>>>,
      <<"U+AB78", <<"U+13A8">>>>, <<"U+AB79", <<"U+13A9">>>>, <<"U+AB7A", <<"U+13AA">>>>,
      <<"U+AB7B", <<"U+13AB">>>>, <<"U+AB7C", <<"U+13AC">>>>, <<"U+AB7D", <<"U+13AD">>>>,
      <<"U+AB7E", <<"U+13AE">>>>, <<"U+AB7F", <<"U+13AF">>>>, <<"U+AB80", <<"U+13B0">>>>,
      <<"U+AB81", <<"U+13B1">>>>, <<"U+AB82", <<"U+13B2">>>>, <<"U+AB83", <<"U+13B3">>>>,
      <<"U+AB84", <<"U+13B4">>>>, <<"U+AB85", <<"U+13B5">>>>, <<"U+AB86", <<"U+13B6">>>>,
      <<"U+AB87", <<"U+13B7">>>>, <<"U+AB88", <<"U+13B8">>>>, <<"U+AB89", <<"U+13B9">>>>,
      <<"U+AB8A", <<"U+13BA">>>>, <<"U+AB8B", <<"U+13BB">>>>, <<"U+AB8C", <<"U+13BC">>>>,
      <<"U+AB8D", <<"U+13BD">>>>, <<"U+AB8E", <<"U+13BE">>>>, <<"U+AB8F", <<"U+13BF">>>>,
      <<"U+AB90", <<"U+13C0">>>>, <<"U+AB91", <<"U+13C1">>>>, <<"U+AB92", <<"U+13C2">>>>,
      <<"U+AB93", <<"U+13C3">>>>, <<"U+AB94", <<"U+13C4">>>>, <<"U+AB95", <<"U+13C5">>>>,
      <<"U+AB96", <<"U+13C6">>>>, <<"U+AB97", <<"U+13C7">>>>, <<"U+AB98", <<"U+13C8">>>>,
      <<"U+AB99", <<"U+13C9">>>>, <<"U+AB9A", <<"U+13CA">>>>, <<"U+AB9B", <<"U+13CB">>>>,
      <<"U+AB9C", <<"U+13CC">>>>, <<"U+AB9D", <<"U+13CD">>>>, <<"U+AB9E", <<"U+13CE">>>>,
      <<"U+AB9F", <<"U+13CF">>>>, <<"U+ABA0", <<"U+13D0">>>>, <<"U+ABA1", <<"U+13D1">>>>,
      <<"U+ABA2", <<"U+13D2">>>>, <<"U+ABA3", <<"U+13D3">>>>, <<"U+ABA4", <<"U+13D4">>>>,
      <<"U+ABA5", <<"U+13D5">>>>, <<"U+ABA6", <<"U+13D6">>>>, <<"U+ABA7", <<"U+13D7">>>>,
      <<"U+ABA8", <<"U+13D8">>>>, <<"U+ABA9", <<"U+13D9">>>>, <<"U+ABAA", <<"U+13DA">>>>,
      <<"U+ABAB", <<"U+13DB">>>>, <<"U+ABAC", <<"U+13DC">>>>, <<"U+ABAD", <<"U+13DD">>>>,
      <<"U+ABAE", <<"U+13DE">>>>, <<"U+ABAF", <<"U+13DF">>>>, <<"U+ABB0", <<"U+13E0">>>>,
      <<"U+ABB1", <<"U+13E1">>>>, <<"U+ABB2", <<"U+13E2">>>>, <<"U+ABB3", <<"U+13E3">>>>,
      <<"U+ABB4", <<"U+13E4">>>>, <<"U+ABB5", <<"U+13E5">>>>, <<"U+ABB6", <<"U+13E6">>>>,
      <<"U+ABB7", <<"U+13E7">>>>, <<"U+ABB8", <<"U+13E8">>>>, <<"U+ABB9", <<"U+13E9">>>>,
      <<"U+ABBA", <<"U+13EA">>>>, <<"U+ABBB", <<"U+13EB">>>>, <<"U+ABBC", <<"U+13EC">>>>,
      <<"U+ABBD", <<"U+13ED">>>>, <<"U+ABBE", <<"U+13EE">>>>, <<"U+ABBF", <<"U+13EF">>>>,
      <<"U+FB00", <<"F","F">>>>, <<"U+FB01", <<"F","I">>>>, <<"U+FB02", <<"F","L">>>>,
      <<"U+FB03", <<"F","F","I">>>>, <<"U+FB04", <<"F","F","L">>>>, <<"U+FB05", <<"S","T">>>>,
      <<"U+FB06", <<"S","T">>>>, <<"U+FB13", <<"U+0544","U+0546">>>>, <<"U+FB14", <<"U+0544","U+0535">>>>,
      <<"U+FB15", <<"U+0544","U+053B">>>>, <<"U+FB16", <<"U+054E","U+0546">>>>, <<"U+FB17", <<"U+0544","U+053D">>>>,
      <<"U+FF41", <<"U+FF21">>>>, <<"U+FF42", <<"U+FF22">>>>, <<"U+FF43", <<"U+FF23">>>>,
      <<"U+FF44", <<"U+FF24">>>>, <<"U+FF45", <<"U+FF25">>>>, <<"U+FF46", <<"U+FF26">>>>,
      <<"U+FF47", <<"U+FF27">>>>, <<"U+FF48", <<"U+FF28">>>>, <<"U+FF49", <<"U+FF29">>>>,
      <<"U+FF4A", <<"U+FF2A">>>>, <<"U+FF4B", <<"U+FF2B">>>>, <<"U+FF4C", <<"U+FF2C">>>>,
      <<"U+FF4D", <<"U+FF2D">>>>, <<"U+FF4E", <<"U+FF2E">>>>, <<"U+FF4F", <<"U+FF2F">>>>,
      <<"U+FF50", <<"U+FF30">>>>, <<"U+FF51", <<"U+FF31">>>>, <<"U+FF52", <<"U+FF32">>>>,
      <<"U+FF53", <<"U+FF33">>>>, <<"U+FF54", <<"U+FF34">>>>, <<"U+FF55", <<"U+FF35">>>>,
      <<"U+FF56", <<"U+FF36">>>>, <<"U+FF57", <<"U+FF37">>>>, <<"U+FF58", <<"U+FF38">>>>,
      <<"U+FF59", <<"U+FF39">>>>, <<"U+FF5A", <<"U+FF3A">>>>, <<"U+10428", <<"U+10400">>>>,
      <<"U+10429", <<"U+10401">>>>, <<"U+1042A", <<"U+10402">>>>, <<"U+1042B", <<"U+10403">>>>,
      <<"U+1042C", <<"U+10404">>>>, <<"U+1042D", <<"U+10405">>>>, <<"U+1042E", <<"U+10406">>>>,
      <<"U+1042F", <<"U+10407">>>>, <<"U+10430", <<"U+10408">>>>, <<"U+10431", <<"U+10409">>>>,
      <<"U+10432", <<"U+1040A">>>>, <<"U+10433", <<"U+1040B">>>>, <<"U+10434", <<"U+1040C">>>>,
      <<"U+10435", <<"U+1040D">>>>, <<"U+10436", <<"U+1040E">>>>, <<"U+10437", <<"U+1040F">>>>,
      <<"U+10438", <<"U+10410">>>>, <<"U+10439", <<"U+10411">>>>, <<"U+1043A", <<"U+10412">>>>,
      <<"U+1043B", <<"U+10413">>>>, <<"U+1043C", <<"U+10414">>>>, <<"U+1043D", <<"U+10415">>>>,
      <<"U+1043E", <<"U+10416">>>>, <<"U+1043F", <<"U+10417">>>>, <<"U+10440", <<"U+10418">>>>,
      <<"U+10441", <<"U+10419">>>>, <<"U+10442", <<"U+1041A">>>>, <<"U+10443", <<"U+1041B">>>>,
      <<"U+10444", <<"U+1041C">>>>, <<"U+10445", <<"U+1041D">>>>, <<"U+10446", <<"U+1041E">>>>,
      <<"U+10447", <<"U+1041F">>>>, <<"U+10448", <<"U+10420">>>>, <<"U+10449", <<"U+10421">>>>,
      <<"U+1044A", <<"U+10422">>>>, <<"U+1044B", <<"U+10423">>>>, <<"U+1044C", <<"U+10424">>>>,
      <<"U+1044D", <<"U+10425">>>>, <<"U+1044E", <<"U+10426">>>>, <<"U+1044F", <<"U+10427">>>>,
      <<"U+104D8", <<"U+104B0">>>>, <<"U+104D9", <<"U+104B1">>>>, <<"U+104DA", <<"U+104B2">>>>,
      <<"U+104DB", <<"U+104B3">>>>, <<"U+104DC", <<"U+104B4">>>>, <<"U+104DD", <<"U+104B5">>>>,
      <<"U+104DE", <<"U+104B6">>>>, <<"U+104DF", <<"U+104B7">>>>, <<"U+104E0", <<"U+104B8">>>>,
      <<"U+104E1", <<"U+104B9">>>>, <<"U+104E2", <<"U+104BA">>>>, <<"U+104E3", <<"U+104BB">>>>,
      <<"U+104E4", <<"U+104BC">>>>, <<"U+104E5", <<"U+104BD">>>>, <<"U+104E6", <<"U+104BE">>>>,
      <<"U+104E7", <<"U+104BF">>>>, <<"U+104E8", <<"U+104C0">>>>, <<"U+104E9", <<"U+104C1">>>>,
      <<"U+104EA", <<"U+104C2">>>>, <<"U+104EB", <<"U+104C3">>>>, <<"U+104EC", <<"U+104C4">>>>,
      <<"U+104ED", <<"U+104C5">>>>, <<"U+104EE", <<"U+104C6">>>>, <<"U+104EF", <<"U+104C7">>>>,
      <<"U+104F0", <<"U+104C8">>>>, <<"U+104F1", <<"U+104C9">>>>, <<"U+104F2", <<"U+104CA">>>>,
      <<"U+104F3", <<"U+104CB">>>>, <<"U+104F4", <<"U+104CC">>>>, <<"U+104F5", <<"U+104CD">>>>,
      <<"U+104F6", <<"U+104CE">>>>, <<"U+104F7", <<"U+104CF">>>>, <<"U+104F8", <<"U+104D0">>>>,
      <<"U+104F9", <<"U+104D1">>>>, <<"U+104FA", <<"U+104D2">>>>, <<"U+104FB", <<"U+104D3">>>>,
      <<"U+10597", <<"U+10570">>>>, <<"U+10598", <<"U+10571">>>>, <<"U+10599", <<"U+10572">>>>,
      <<"U+1059A", <<"U+10573">>>>, <<"U+1059B", <<"U+10574">>>>, <<"U+1059C", <<"U+10575">>>>,
      <<"U+1059D", <<"U+10576">>>>, <<"U+1059E", <<"U+10577">>>>, <<"U+1059F", <<"U+10578">>>>,
      <<"U+105A0", <<"U+10579">>>>, <<"U+105A1", <<"U+1057A">>>>, <<"U+105A3", <<"U+1057C">>>>,
      <<"U+105A4", <<"U+1057D">>>>, <<"U+105A5", <<"U+1057E">>>>, <<"U+105A6", <<"U+1057F">>>>,
      <<"U+105A7", <<"U+10580">>>>, <<"U+105A8", <<"U+10581">>>>, <<"U+105A9", <<"U+10582">>>>,
      <<"U+105AA", <<"U+10583">>>>, <<"U+105AB", <<"U+10584">>>>, <<"U+105AC", <<"U+10585">>>>,
      <<"U+105AD", <<"U+10586">>>>, <<"U+105AE", <<"U+10587">>>>, <<"U+105AF", <<"U+10588">>>>,
      <<"U+105B0", <<"U+10589">>>>, <<"U+105B1", <<"U+1058A">>>>, <<"U+105B3", <<"U+1058C">>>>,
      <<"U+105B4", <<"U+1058D">>>>, <<"U+105B5", <<"U+1058E">>>>, <<"U+105B6", <<"U+1058F">>>>,
      <<"U+105B7", <<"U+10590">>>>, <<"U+105B8", <<"U+10591">>>>, <<"U+105B9", <<"U+10592">>>>,
      <<"U+105BB", <<"U+10594">>>>, <<"U+105BC", <<"U+10595">>>>, <<"U+10CC0", <<"U+10C80">>>>,
      <<"U+10CC1", <<"U+10C81">>>>, <<"U+10CC2", <<"U+10C82">>>>, <<"U+10CC3", <<"U+10C83">>>>,
      <<"U+10CC4", <<"U+10C84">>>>, <<"U+10CC5", <<"U+10C85">>>>, <<"U+10CC6", <<"U+10C86">>>>,
      <<"U+10CC7", <<"U+10C87">>>>, <<"U+10CC8", <<"U+10C88">>>>, <<"U+10CC9", <<"U+10C89">>>>,
      <<"U+10CCA", <<"U+10C8A">>>>, <<"U+10CCB", <<"U+10C8B">>>>, <<"U+10CCC", <<"U+10C8C">>>>,
      <<"U+10CCD", <<"U+10C8D">>>>, <<"U+10CCE", <<"U+10C8E">>>>, <<"U+10CCF", <<"U+10C8F">>>>,
      <<"U+10CD0", <<"U+10C90">>>>, <<"U+10CD1", <<"U+10C91">>>>, <<"U+10CD2", <<"U+10C92">>>>,
      <<"U+10CD3", <<"U+10C93">>>>, <<"U+10CD4", <<"U+10C94">>>>, <<"U+10CD5", <<"U+10C95">>>>,
      <<"U+10CD6", <<"U+10C96">>>>, <<"U+10CD7", <<"U+10C97">>>>, <<"U+10CD8", <<"U+10C98">>>>,
      <<"U+10CD9", <<"U+10C99">>>>, <<"U+10CDA", <<"U+10C9A">>>>, <<"U+10CDB", <<"U+10C9B">>>>,
      <<"U+10CDC", <<"U+10C9C">>>>, <<"U+10CDD", <<"U+10C9D">>>>, <<"U+10CDE", <<"U+10C9E">>>>,
      <<"U+10CDF", <<"U+10C9F">>>>, <<"U+10CE0", <<"U+10CA0">>>>, <<"U+10CE1", <<"U+10CA1">>>>,
      <<"U+10CE2", <<"U+10CA2">>>>, <<"U+10CE3", <<"U+10CA3">>>>, <<"U+10CE4", <<"U+10CA4">>>>,
      <<"U+10CE5", <<"U+10CA5">>>>, <<"U+10CE6", <<"U+10CA6">>>>, <<"U+10CE7", <<"U+10CA7">>>>,
      <<"U+10CE8", <<"U+10CA8">>>>, <<"U+10CE9", <<"U+10CA9">>>>, <<"U+10CEA", <<"U+10CAA">>>>,
      <<"U+10CEB", <<"U+10CAB">>>>, <<"U+10CEC", <<"U+10CAC">>>>, <<"U+10CED", <<"U+10CAD">>>>,
      <<"U+10CEE", <<"U+10CAE">>>>, <<"U+10CEF", <<"U+10CAF">>>>, <<"U+10CF0", <<"U+10CB0">>>>,
      <<"U+10CF1", <<"U+10CB1">>>>, <<"U+10CF2", <<"U+10CB2">>>>, <<"U+10D70", <<"U+10D50">>>>,
      <<"U+10D71", <<"U+10D51">>>>, <<"U+10D72", <<"U+10D52">>>>, <<"U+10D73", <<"U+10D53">>>>,
      <<"U+10D74", <<"U+10D54">>>>, <<"U+10D75", <<"U+10D55">>>>, <<"U+10D76", <<"U+10D56">>>>,
      <<"U+10D77", <<"U+10D57">>>>, <<"U+10D78", <<"U+10D58">>>>, <<"U+10D79", <<"U+10D59">>>>,
      <<"U+10D7A", <<"U+10D5A">>>>, <<"U+10D7B", <<"U+10D5B">>>>, <<"U+10D7C", <<"U+10D5C">>>>,
      <<"U+10D7D", <<"U+10D5D">>>>, <<"U+10D7E", <<"U+10D5E">>>>, <<"U+10D7F", <<"U+10D5F">>>>,
      <<"U+10D80", <<"U+10D60">>>>, <<"U+10D81", <<"U+10D61">>>>, <<"U+10D82", <<"U+10D62">>>>,
      <<"U+10D83", <<"U+10D63">>>>, <<"U+10D84", <<"U+10D64">>>>, <<"U+10D85", <<"U+10D65">>>>,
      <<"U+118C0", <<"U+118A0">>>>, <<"U+118C1", <<"U+118A1">>>>, <<"U+118C2", <<"U+118A2">>>>,
      <<"U+118C3", <<"U+118A3">>>>, <<"U+118C4", <<"U+118A4">>>>, <<"U+118C5", <<"U+118A5">>>>,
      <<"U+118C6", <<"U+118A6">>>>, <<"U+118C7", <<"U+118A7">>>>, <<"U+118C8", <<"U+118A8">>>>,
      <<"U+118C9", <<"U+118A9">>>>, <<"U+118CA", <<"U+118AA">>>>, <<"U+118CB", <<"U+118AB">>>>,
      <<"U+118CC", <<"U+118AC">>>>, <<"U+118CD", <<"U+118AD">>>>, <<"U+118CE", <<"U+118AE">>>>,
      <<"U+118CF", <<"U+118AF">>>>, <<"U+118D0", <<"U+118B0">>>>, <<"U+118D1", <<"U+118B1">>>>,
      <<"U+118D2", <<"U+118B2">>>>, <<"U+118D3", <<"U+118B3">>>>, <<"U+118D4", <<"U+118B4">>>>,
      <<"U+118D5", <<"U+118B5">>>>, <<"U+118D6", <<"U+118B6">>>>, <<"U+118D7", <<"U+118B7">>>>,
      <<"U+118D8", <<"U+118B8">>>>, <<"U+118D9", <<"U+118B9">>>>, <<"U+118DA", <<"U+118BA">>>>,
      <<"U+118DB", <<"U+118BB">>>>, <<"U+118DC", <<"U+118BC">>>>, <<"U+118DD", <<"U+118BD">>>>,
      <<"U+118DE", <<"U+118BE">>>>, <<"U+118DF", <<"U+118BF">>>>, <<"U+16E60", <<"U+16E40">>>>,
      <<"U+16E61", <<"U+16E41">>>>, <<"U+16E62", <<"U+16E42">>>>, <<"U+16E63", <<"U+16E43">>>>,
      <<"U+16E64", <<"U+16E44">>>>, <<"U+16E65", <<"U+16E45">>>>, <<"U+16E66", <<"U+16E46">>>>,
      <<"U+16E67", <<"U+16E47">>>>, <<"U+16E68", <<"U+16E48">>>>, <<"U+16E69", <<"U+16E49">>>>,
      <<"U+16E6A", <<"U+16E4A">>>>, <<"U+16E6B", <<"U+16E4B">>>>, <<"U+16E6C", <<"U+16E4C">>>>,
      <<"U+16E6D", <<"U+16E4D">>>>, <<"U+16E6E", <<"U+16E4E">>>>, <<"U+16E6F", <<"U+16E4F">>>>,
      <<"U+16E70", <<"U+16E50">>>>, <<"U+16E71", <<"U+16E51">>>>, <<"U+16E72", <<"U+16E52">>>>,
      <<"U+16E73", <<"U+16E53">>>>, <<"U+16E74", <<"U+16E54">>>>, <<"U+16E75", <<"U+16E55">>>>,
      <<"U+16E76", <<"U+16E56">>>>, <<"U+16E77", <<"U+16E57">>>>, <<"U+16E78", <<"U+16E58">>>>,
      <<"U+16E79", <<"U+16E59">>>>, <<"U+16E7A", <<"U+16E5A">>>>, <<"U+16E7B", <<"U+16E5B">>>>,
      <<"U+16E7C", <<"U+16E5C">>>>, <<"U+16E7D", <<"U+16E5D">>>>, <<"U+16E7E", <<"U+16E5E">>>>,
      <<"U+16E7F", <<"U+16E5F">>>>, <<"U+16EBB", <<"U+16EA0">>>>, <<"U+16EBC", <<"U+16EA1">>>>,
      <<"U+16EBD", <<"U+16EA2">>>>, <<"U+16EBE", <<"U+16EA3">>>>, <<"U+16EBF", <<"U+16EA4">>>>,
      <<"U+16EC0", <<"U+16EA5">>>>, <<"U+16EC1", <<"U+16EA6">>>>, <<"U+16EC2", <<"U+16EA7">>>>,
      <<"U+16EC3", <<"U+16EA8">>>>, <<"U+16EC4", <<"U+16EA9">>>>, <<"U+16EC5", <<"U+16EAA">>>>,
      <<"U+16EC6", <<"U+16EAB">>>>, <<"U+16EC7", <<"U+16EAC">>>>, <<"U+16EC8", <<"U+16EAD">>>>,
      <<"U+16EC9", <<"U+16EAE">>>>, <<"U+16ECA", <<"U+16EAF">>>>, <<"U+16ECB", <<"U+16EB0">>>>,
      <<"U+16ECC", <<"U+16EB1">>>>, <<"U+16ECD", <<"U+16EB2">>>>, <<"U+16ECE", <<"U+16EB3">>>>,
      <<"U+16ECF", <<"U+16EB4">>>>, <<"U+16ED0", <<"U+16EB5">>>>, <<"U+16ED1", <<"U+16EB6">>>>,
      <<"U+16ED2", <<"U+16EB7">>>>, <<"U+16ED3", <<"U+16EB8">>>>, <<"U+1E922", <<"U+1E900">>>>,
      <<"U+1E923", <<"U+1E901">>>>, <<"U+1E924", <<"U+1E902">>>>, <<"U+1E925", <<"U+1E903">>>>,
      <<"U+1E926", <<"U+1E904">>>>, <<"U+1E927", <<"U+1E905">>>>, <<"U+1E928", <<"U+1E906">>>>,
      <<"U+1E929", <<"U+1E907">>>>, <<"U+1E92A", <<"U+1E908">>>>, <<"U+1E92B", <<"U+1E909">>>>,
      <<"U+1E92C", <<"U+1E90A">>>>, <<"U+1E92D", <<"U+1E90B">>>>, <<"U+1E92E", <<"U+1E90C">>>>,
      <<"U+1E92F", <<"U+1E90D">>>>, <<"U+1E930", <<"U+1E90E">>>>, <<"U+1E931", <<"U+1E90F">>>>,
      <<"U+1E932", <<"U+1E910">>>>, <<"U+1E933", <<"U+1E911">>>>, <<"U+1E934", <<"U+1E912">>>>,
      <<"U+1E935", <<"U+1E913">>>>, <<"U+1E936", <<"U+1E914">>>>, <<"U+1E937", <<"U+1E915">>>>,
      <<"U+1E938", <<"U+1E916">>>>, <<"U+1E939", <<"U+1E917">>>>, <<"U+1E93A", <<"U+1E918">>>>,
      <<"U+1E93B", <<"U+1E919">>>>, <<"U+1E93C", <<"U+1E91A">>>>, <<"U+1E93D", <<"U+1E91B">>>>,
      <<"U+1E93E", <<"U+1E91C">>>>, <<"U+1E93F", <<"U+1E91D">>>>, <<"U+1E940", <<"U+1E91E">>>>,
      <<"U+1E941", <<"U+1E91F">>>>, <<"U+1E942", <<"U+1E920">>>>, <<"U+1E943", <<"U+1E921">>>> }

UnicodeUpper ==
    [c \in {p[1] : p \in UpperPairs} |-> (CHOOSE p \in UpperPairs : p[1] = c)[2]]

\* char::to_uppercase
to_uppercase_char(c) ==
    IF \E i \in 1..Len(Lower) : Lower[i] = c
    THEN <<Upper[CHOOSE i \in 1..Len(Lower) : Lower[i] = c]>>
    ELSE IF c \in DOMAIN UnicodeUpper THEN UnicodeUpper[c]
    ELSE <<c>>

\* the name left in the letter case it was written in
to_uppercase_missing(s) == s

RECURSIVE to_uppercase(_)
to_uppercase(s) ==
    IF s = <<>> THEN <<>>
    ELSE to_uppercase_char(Head(s)) \o to_uppercase(Tail(s))

---------------------------------------------------------------------------
(* Messages *)

\* "Null formula string"
MsgNullFormula ==
    <<"N","u","l","l"," ","f","o","r","m","u","l","a"," ","s","t","r","i","n","g">>

\* "Invalid formula encoding"
MsgInvalidFormulaEncoding ==
    <<"I","n","v","a","l","i","d"," ","f","o","r","m","u","l","a"," ","e","n","c","o","d",
      "i","n","g">>

\* "Formula must start with '='"
MsgMissingLeadingEquals ==
    <<"F","o","r","m","u","l","a"," ","m","u","s","t"," ","s","t","a","r","t"," ","w","i",
      "t","h"," ","'","=","'">>

\* "Formula missing closing parenthesis"
MsgMissingCloseParen ==
    <<"F","o","r","m","u","l","a"," ","m","i","s","s","i","n","g"," ","c","l","o","s","i",
      "n","g"," ","p","a","r","e","n","t","h","e","s","i","s">>

\* "Failed to create result string"
MsgFailedToCreate ==
    <<"F","a","i","l","e","d"," ","t","o"," ","c","r","e","a","t","e"," ","r","e","s","u",
      "l","t"," ","s","t","r","i","n","g">>

\* "Invalid formula syntax: expected function(arg)"
MsgMissingOpenParen ==
    <<"I","n","v","a","l","i","d"," ","f","o","r","m","u","l","a"," ","s","y","n","t","a",
      "x",":"," ","e","x","p","e","c","t","e","d"," ","f","u","n","c","t","i","o","n","(",
      "a","r","g",")">>

\* "Null pointer provided"
MsgNullPointer ==
    <<"N","u","l","l"," ","p","o","i","n","t","e","r"," ","p","r","o","v","i","d","e","d">>

\* "Invalid column name encoding"
MsgInvalidColumnName ==
    <<"I","n","v","a","l","i","d"," ","c","o","l","u","m","n"," ","n","a","m","e"," ","e",
      "n","c","o","d","i","n","g">>

\* "No numeric values found in column"
MsgNoNumericValues ==
    <<"N","o"," ","n","u","m","e","r","i","c"," ","v","a","l","u","e","s"," ","f","o","u",
      "n","d"," ","i","n"," ","c","o","l","u","m","n">>

---------------------------------------------------------------------------
(* tessera_parse_formula: the text it returns *)

Text(t) == [panic |-> FALSE, text |-> t]

Panic == [panic |-> TRUE, text |-> <<>>]

\* CString::new: fails on an interior NUL byte
CString_new(s) ==
    IF \E i \in 1..Len(s) : s[i] = "\\0"
    THEN [ok |-> FALSE, s |-> <<>>]
    ELSE [ok |-> TRUE, s |-> s]

\* format!("{}:{}", func_name, args)
format_result(func_name, args) == func_name \o <<":">> \o args

\* parse_body with the closing parenthesis tested before the opening one is looked for
parse_body_close_first(formula_body) ==
    IF ~ends_with(formula_body, ")") THEN Text(MsgMissingCloseParen)
    ELSE LET f == find(formula_body, "(")
         IN  IF f.some
             THEN LET args_slice ==
                          slice(formula_body, f.idx + 1, Len(formula_body) - 1)
                      name_slice == slice(formula_body, 0, f.idx)
                  IN  IF args_slice.panic \/ name_slice.panic THEN Panic
                      ELSE Text(format_result(to_uppercase(trim(name_slice.s)),
                                              trim(args_slice.s)))
             ELSE Text(MsgMissingOpenParen)

\* lines 343-368: the body after '=' has been taken and trimmed
parse_body(formula_body) ==
    LET f == find(formula_body, "(")
    IN  IF f.some
        THEN LET func_end == f.idx
                 name_slice == slice(formula_body, 0, func_end)
                 func_name == to_uppercase(trim(name_slice.s))
                 args_start == func_end + 1
             IN  IF name_slice.panic THEN Panic
                 ELSE IF ~ends_with(formula_body, ")")
                 THEN Text(MsgMissingCloseParen)
                 ELSE LET args_slice ==
                              slice(formula_body, args_start, Len(formula_body) - 1)
                          args == trim(args_slice.s)
                          res == format_result(func_name, args)
                      IN  IF args_slice.panic THEN Panic
                          ELSE IF CString_new(res).ok THEN Text(res)
                          ELSE Text(MsgFailedToCreate)
        ELSE Text(MsgMissingOpenParen)

\* lines 322-341: null check, decoding, trimming, the leading '='
parse_formula_text(f) ==
    IF f.isNull THEN Text(MsgNullFormula)
    ELSE LET r == to_str(f.bytes)
         IN  IF ~r.ok THEN Text(MsgInvalidFormulaEncoding)
             ELSE LET formula_str == trim(r.s)
                  IN  IF ~starts_with(formula_str, "=")
                      THEN Text(MsgMissingLeadingEquals)
                      ELSE LET rest == slice(formula_str, 1, Len(formula_str))
                           IN  IF rest.panic THEN Panic
                               ELSE parse_body(trim(rest.s))

---------------------------------------------------------------------------
(* The heap of C strings *)

EmptyHeap == [a \in {} |-> <<>>]

Live(h) == DOMAIN h

FreeAddrs(h) == (1..MaxAddr) \ DOMAIN h

\* CString::as_ptr in place of into_raw: the CString is dropped when the call
\* returns and the pointer handed out dangles
as_ptr_dangling(h, a, text) == h

\* CString::into_raw: the allocation at address a now belongs to the caller
into_raw(h, a, text) == [x \in DOMAIN h \cup {a} |-> IF x = a THEN text ELSE h[x]]

\* CString::from_raw followed by drop: the allocation is freed
from_raw_drop(h, p) == [x \in DOMAIN h \ {p} |-> h[x]]

---------------------------------------------------------------------------
(* f64 values, IEEE-754 binary64 arithmetic and str::parse::<f64> *)

\* Natural numbers of any size are little-endian sequences of limbs below
\* LimbBase = 2^LimbBits without a leading zero limb; zero is <<>>.
LimbBits == 15

LimbBase == 32768

Pow2Table ==
    <<1, 2, 4, 8, 16, 32, 64, 128, 256, 512, 1024, 2048, 4096, 8192, 16384,
      32768>>

\* 2^n for 0 <= n <= LimbBits
Pow2(n) == Pow2Table[n + 1]

Pow10Table == <<1, 10, 100, 1000, 10000>>

Max(a, b) == IF a >= b THEN a ELSE b

Min(a, b) == IF a <= b THEN a ELSE b

\* number of bits of a limb x >= 0
int_bitlen(x) == Cardinality({n \in 0..(LimbBits - 1) : Pow2(n) <= x})

\* number of trailing zero bits of a limb x > 0
int_tz(x) ==
    CHOOSE n \in 0..(LimbBits - 1) : x % Pow2(n) = 0 /\ (x \div Pow2(n)) % 2 = 1

\* a without its leading zero limbs: t of them, found from the top
bn_norm(a) ==
    LET n == Len(a)
        t == CHOOSE t \in 0..n :
                 /\ t = n \/ a[n - t] # 0
                 /\ \A u \in 0..(t - 1) : a[n - u] = 0
    IN  SubSeq(a, 1, n - t)

\* 0 <= n < 2^31
RECURSIVE bn_from_int(_)
bn_from_int(n) ==
    IF n = 0 THEN <<>> ELSE <<n % LimbBase>> \o bn_from_int(n \div LimbBase)

bn_limb(a, i) == IF 1 <= i /\ i <= Len(a) THEN a[i] ELSE 0

\* a + b: limb i receives a carry when the nearest limb below it that is not
\* full overflows; that limb is t places down
bn_add(a, b) ==
    LET s(i) == bn_limb(a, i) + bn_limb(b, i)
        c(i) == LET t == CHOOSE t \in 1..i :
                             /\ t = i \/ s(i - t) # LimbBase - 1
                             /\ \A u \in 1..(t - 1) : s(i - u) = LimbBase - 1
                IN  IF t < i /\ s(i - t) >= LimbBase THEN 1 ELSE 0
    IN  bn_norm([i \in 1..(Max(Len(a), Len(b)) + 1) |-> (s(i) + c(i)) % LimbBase])

\* a - b for a >= b: limb i lends when the nearest limb below it that is not
\* even falls short; that limb is t places down
bn_sub(a, b) ==
    LET d(i) == a[i] - bn_limb(b, i)
        c(i) == LET t == CHOOSE t \in 1..i :
                             /\ t = i \/ d(i - t) # 0
                             /\ \A u \in 1..(t - 1) : d(i - u) = 0
                IN  IF t < i /\ d(i - t) < 0 THEN 1 ELSE 0
    IN  bn_norm([i \in 1..Len(a) |-> (d(i) - c(i) + LimbBase) % LimbBase])

\* what the limbs lo..hi of b add to column k of a * b: the low halves of
\* the limb products of that column and the high halves of the products of
\* the column below, summed by halves of the range
RECURSIVE bn_mul_column(_, _, _, _, _)
bn_mul_column(a, b, k, lo, hi) ==
    IF lo > hi THEN 0
    ELSE IF lo = hi
    THEN ((bn_limb(a, k - lo + 1) * b[lo]) % LimbBase)
         + ((bn_limb(a, k - lo) * b[lo]) \div LimbBase)
    ELSE bn_mul_column(a, b, k, lo, (lo + hi) \div 2)
         + bn_mul_column(a, b, k, (lo + hi) \div 2 + 1, hi)

\* the columns of a product are summed as integers for at most this many
\* limbs of b: 2 * MulBlock terms below LimbBase stay below 2^31
MulBlock == 16384

\* a * b, for b of at most MulBlock limbs
bn_mul_block(a, b) ==
    IF Len(a) = 0 \/ Len(b) = 0 THEN <<>>
    ELSE LET c == [k \in 1..(Len(a) + Len(b)) |-> bn_mul_column(a, b, k, 1, Len(b))]
         IN  bn_add([k \in 1..(Len(a) + Len(b)) |-> c[k] % LimbBase],
                    <<0>> \o [k \in 1..(Len(a) + Len(b)) |-> c[k] \div LimbBase])

\* a with n zero limbs below it
bn_shl_limbs(a, n) ==
    IF Len(a) = 0 THEN <<>> ELSE [i \in 1..n |-> 0] \o a

\* a * b, MulBlock limbs of b at a time
RECURSIVE bn_mul(_, _)
bn_mul(a, b) ==
    IF Len(b) <= MulBlock THEN bn_mul_block(a, b)
    ELSE bn_add(bn_mul_block(a, SubSeq(b, 1, MulBlock)),
                bn_shl_limbs(bn_mul(a, SubSeq(b, MulBlock + 1, Len(b))), MulBlock))

\* a * k for 0 <= k < LimbBase
bn_mul_small(a, k) == bn_mul(a, <<k>>)

bn_lt(a, b) ==
    IF Len(a) # Len(b) THEN Len(a) < Len(b)
    ELSE \E i \in 1..Len(a) :
            /\ a[i] < b[i]
            /\ \A j \in (i + 1)..Len(a) : a[j] = b[j]

bn_bitlen(a) ==
    IF Len(a) = 0 THEN 0
    ELSE LimbBits * (Len(a) - 1) + int_bitlen(a[Len(a)])

\* a * 2^s
bn_shl(a, s) ==
    IF Len(a) = 0 THEN <<>>
    ELSE LET w == s \div LimbBits
             r == s % LimbBits
         IN  bn_norm([i \in 1..(w + Len(a) + 1) |->
                 IF i <= w THEN 0
                 ELSE (bn_limb(a, i - w) % Pow2(LimbBits - r)) * Pow2(r)
                      + bn_limb(a, i - w - 1) \div Pow2(LimbBits - r)])

\* floor(a / 2^s)
bn_shr(a, s) ==
    LET w == s \div LimbBits
        r == s % LimbBits
    IN  IF w >= Len(a) THEN <<>>
        ELSE bn_norm([i \in 1..(Len(a) - w) |->
                 a[i + w] \div Pow2(r)
                 + (bn_limb(a, i + w + 1) % Pow2(r)) * Pow2(LimbBits - r)])

\* bit i (bit 0 is the lowest) of a
bn_testbit(a, i) ==
    /\ i \div LimbBits < Len(a)
    /\ (a[i \div LimbBits + 1] \div Pow2(i % LimbBits)) % 2 = 1

\* some bit of a below bit d is set
bn_low_nonzero(a, d) ==
    \E j \in 1..Len(a) :
        \/ j - 1 < d \div LimbBits /\ a[j] # 0
        \/ j - 1 = d \div LimbBits /\ a[j] % Pow2(d % LimbBits) # 0

\* one step of the power by squaring: the square, times 5 when the bit of
\* the exponent is set
bn_pow5_step(sq, bit, i) ==
    [p |-> IF bit THEN bn_mul_small(sq, 5) ELSE sq, i |-> i]

\* 5^n by squaring, from the top bit of n down: st.p is 5 to the power of
\* the bits of n above the st.i lowest
RECURSIVE bn_pow5_loop(_, _)
bn_pow5_loop(n, st) ==
    IF st.i = 0 THEN st.p
    ELSE bn_pow5_loop(n, bn_pow5_step(bn_mul(st.p, st.p),
                                      bn_testbit(n, st.i - 1), st.i - 1))

\* 5^n, for 0 <= n < 2^31
bn_pow5(n) ==
    bn_pow5_loop(bn_from_int(n), [p |-> <<1>>, i |-> bn_bitlen(bn_from_int(n))])

\* number of trailing zero bits of a # 0
bn_tz(a) ==
    LET j == SetMin({i \in 1..Len(a) : a[i] # 0})
    IN  LimbBits * (j - 1) + int_tz(a[j])

\* the digit d of long division in base LimbBase: d * b <= r < (d + 1) * b,
\* for r < b * LimbBase and b with its top limb at least LimbBase / 2.  The
\* two top limbs of r divided by the top limb of b are d, d + 1 or d + 2.
bn_div_digit(r, b) ==
    LET n == Len(b)
        est == Min((bn_limb(r, n + 1) * LimbBase + bn_limb(r, n)) \div b[n],
                   LimbBase - 1)
    IN  CHOOSE d \in Max(est - 2, 0)..est :
            /\ ~bn_lt(r, bn_mul_small(b, d))
            /\ bn_lt(r, bn_mul_small(b, d + 1))

\* r * LimbBase + x for a limb x
bn_push_limb(r, x) == bn_norm(<<x>> \o r)

\* the step of long division on the remainder r2 once its digit d is known
bn_div_subtract(b, r2, q, d) ==
    [r |-> bn_sub(r2, bn_mul_small(b, d)), q |-> <<d>> \o q]

\* one step of long division, on the remainder r2 with the next limb of the
\* dividend brought down
bn_div_step(b, r2, q) == bn_div_subtract(b, r2, q, bn_div_digit(r2, b))

\* long division in base LimbBase down the n low limbs of a: st.r is the
\* remainder and st.q the limbs of the quotient so far
RECURSIVE bn_div_steps(_, _, _, _)
bn_div_steps(a, b, n, st) ==
    IF Len(st.q) = n THEN st
    ELSE bn_div_steps(a, b, n,
                      bn_div_step(b, bn_push_limb(st.r, a[n - Len(st.q)]), st.q))

\* quotient and remainder of a by b, for b with its top limb at least
\* LimbBase / 2: the top Len(b) - 1 limbs of a are less than b
bn_divmod_normal(a, b) ==
    IF Len(a) < Len(b) THEN [q |-> <<>>, r |-> a]
    ELSE bn_div_steps(a, b, Len(a) - Len(b) + 1,
                      [r |-> SubSeq(a, Len(a) - Len(b) + 2, Len(a)), q |-> <<>>])

\* the result of the division of a * 2^s by b * 2^s, taken back to a and b
bn_divmod_shifted(dm, s) == [q |-> bn_norm(dm.q), r |-> bn_shr(dm.r, s)]

\* the division with both operands shifted by s
bn_divmod_shift(a, b, s) ==
    bn_divmod_shifted(bn_divmod_normal(bn_shl(a, s), bn_shl(b, s)), s)

\* quotient and remainder of a by b # 0
bn_divmod(a, b) == bn_divmod_shift(a, b, LimbBits - int_bitlen(b[Len(b)]))

\* An f64 is a record [k, s, m, e].  k = "fin" is the finite value
\* s * m * 2^e with s the sign (1 or -1), m an odd natural number and e an
\* integer; the zero of sign s is m = <<>>, e = 0.  k = "inf" carries its sign
\* in s.
Zero(sgn) == [k |-> "fin", s |-> sgn, m |-> <<>>, e |-> 0]

\* +infinity (sgn = 1) or -infinity (sgn = -1)
Inf(sgn) == [k |-> "inf", s |-> sgn, m |-> <<>>, e |-> 0]

NaN == [k |-> "nan", s |-> 1, m |-> <<>>, e |-> 0]

is_finite(x) == x.k = "fin"

\* significand bits of binary64
MantBits == 53

\* exponent of the lowest bit of a subnormal
MinExp == -1074

\* finite values are below 2^MaxExp
MaxExp == 1024

GuardBits == 64

\* the f64 sgn * m * 2^e, for m of at most MantBits bits and e >= MinExp
f64_pack(sgn, m, e) ==
    IF Len(m) = 0 THEN Zero(sgn)
    ELSE IF bn_bitlen(m) + e > MaxExp THEN Inf(sgn)
    ELSE [k |-> "fin", s |-> sgn, m |-> bn_shr(m, bn_tz(m)), e |-> e + bn_tz(m)]

\* sgn * m0 * 2^t, or the f64 next above it in magnitude when up
round_up(sgn, m0, up, t) ==
    f64_pack(sgn, IF up THEN bn_add(m0, <<1>>) ELSE m0, t)

\* sgn * (q + f) * 2^qe rounded to the f64 grid of unit 2^t, ties to even,
\* where 0 <= f < 1 and sticky says whether f > 0: the d = t - qe low bits
\* of q are dropped, and the result goes up when they are more than half a
\* unit, or half a unit exactly and the kept part is odd
round_at(sgn, q, sticky, qe, d) ==
    IF d <= 0 THEN f64_pack(sgn, q, qe)
    ELSE round_up(sgn, bn_shr(q, d),
                  bn_testbit(q, d - 1)
                      /\ (sticky \/ bn_low_nonzero(q, d - 1) \/ bn_testbit(q, d)),
                  qe + d)

\* the same, the unit being that of an f64 of the magnitude of q * 2^qe:
\* MantBits significant bits, and no bit below 2^MinExp
round_quot(sgn, q, sticky, qe) ==
    round_at(sgn, q, sticky, qe, Max(bn_bitlen(q) - MantBits, MinExp - qe))

\* sgn * (a / b) * 2^e, for a quotient scaled by 2^k to at least
\* MantBits + 2 bits
round_scaled(sgn, dm, qe) == round_quot(sgn, dm.q, Len(dm.r) # 0, qe)

\* a * 2^k, k of either sign, the bits shifted out being zero or unused
bn_scale_up(a, k) == IF k > 0 THEN bn_shl(a, k) ELSE a

\* sgn * (a / b) * 2^e rounded to the nearest f64, ties to even, k being
\* the scaling that gives the quotient MantBits + 2 bits or one more
round_div(sgn, a, b, e, k) ==
    round_scaled(sgn, bn_divmod(bn_scale_up(a, k), bn_scale_up(b, -k)), e - k)

\* sgn * (a / b) * 2^e rounded to the nearest f64, ties to even
round_ratio(sgn, a, b, e) ==
    IF Len(a) = 0 THEN Zero(sgn)
    ELSE IF b = <<1>> THEN round_quot(sgn, a, FALSE, e)
    ELSE round_div(sgn, a, b, e, MantBits + 2 - (bn_bitlen(a) - bn_bitlen(b)))

\* i as f64, for 0 <= i < 2^31: exact (usize as f64)
f64_from_int(i) == f64_pack(1, bn_from_int(i), 0)

\* |a| < |b| for finite operands other than zero
f64_mag_lt(a, b) ==
    IF bn_bitlen(a.m) + a.e # bn_bitlen(b.m) + b.e
         THEN bn_bitlen(a.m) + a.e < bn_bitlen(b.m) + b.e
    ELSE bn_lt(bn_shl(a.m, a.e - Min(a.e, b.e)), bn_shl(b.m, b.e - Min(a.e, b.e)))

\* a < b for operands that are not NaN
f64_lt(a, b) ==
    IF a.k = "inf" THEN a.s < 0 /\ ~(b.k = "inf" /\ b.s < 0)
    ELSE IF b.k = "inf" THEN b.s > 0
    ELSE IF Len(a.m) = 0 /\ Len(b.m) = 0 THEN FALSE
    ELSE IF Len(a.m) = 0 THEN b.s > 0
    ELSE IF Len(b.m) = 0 THEN a.s < 0
    ELSE IF a.s # b.s THEN a.s < b.s
    ELSE IF a.s = 1 THEN f64_mag_lt(a, b) ELSE f64_mag_lt(b, a)

\* sa * x * 2^e + sb * y * 2^e as f64: the exact sum, rounded; a sum that
\* is exactly zero is +0.0
f64_add_aligned(sa, x, sb, y, e) ==
    IF sa # sb /\ x = y THEN Zero(1)
    ELSE round_quot(IF sa = sb \/ bn_lt(y, x) THEN sa ELSE sb,
                    IF sa = sb THEN bn_add(x, y)
                    ELSE IF bn_lt(y, x) THEN bn_sub(x, y) ELSE bn_sub(y, x),
                    FALSE, e)

\* a + b.  An operand more than GuardBits binary places below the other is
\* less than a quarter of the unit in the last place of the sum and is
\* rounded away; a sum that is exactly zero is -0.0 only when both operands
\* are.
f64_add(a, b) ==
    IF a.k = "nan" \/ b.k = "nan" THEN NaN
    ELSE IF a.k = "inf" /\ b.k = "inf" THEN (IF a.s = b.s THEN a ELSE NaN)
    ELSE IF a.k = "inf" THEN a
    ELSE IF b.k = "inf" THEN b
    ELSE IF Len(a.m) = 0 /\ Len(b.m) = 0 THEN (IF a.s = b.s THEN a ELSE Zero(1))
    ELSE IF Len(a.m) = 0 THEN b
    ELSE IF Len(b.m) = 0 THEN a
    ELSE IF bn_bitlen(a.m) + a.e > bn_bitlen(b.m) + b.e + GuardBits THEN a
    ELSE IF bn_bitlen(b.m) + b.e > bn_bitlen(a.m) + a.e + GuardBits THEN b
    ELSE f64_add_aligned(a.s, bn_shl(a.m, a.e - Min(a.e, b.e)),
                         b.s, bn_shl(b.m, b.e - Min(a.e, b.e)), Min(a.e, b.e))

\* sum / parsed_count as f64, parsed_count >= 1
f64_div_count(a, c) ==
    IF is_finite(a) THEN round_ratio(a.s, a.m, bn_from_int(c), a.e) ELSE a

\* f64::min: a NaN operand is ignored in favour of the other, and of two
\* operands that compare equal the first is returned
f64_min(a, b) ==
    IF a.k = "nan" THEN b
    ELSE IF b.k = "nan" THEN a
    ELSE IF f64_lt(b, a) THEN b ELSE a

\* f64::max: a NaN operand is ignored in favour of the other, and of two
\* operands that compare equal the first is returned
f64_max(a, b) ==
    IF a.k = "nan" THEN b
    ELSE IF b.k = "nan" THEN a
    ELSE IF f64_lt(a, b) THEN b ELSE a

is_digit(c) == \E i \in 1..Len(Digits) : Digits[i] = c

digit_val(c) == (CHOOSE i \in 1..Len(Digits) : Digits[i] = c) - 1

\* the number of digits of s from (1-based) position i on
digit_run(s, i) ==
    SetMin({j \in i..(Len(s) + 1) : j = Len(s) + 1 \/ ~is_digit(s[j])}) - i

\* the number of leading "0" of the digits s
zero_run(s) ==
    SetMin({j \in 1..(Len(s) + 1) : j = Len(s) + 1 \/ s[j] # "0"}) - 1

\* the value of the n digits of s from position i on, for n <= 9
RECURSIVE nat_of(_, _, _)
nat_of(s, i, n) ==
    IF n = 0 THEN 0
    ELSE nat_of(s, i, n - 1) * 10 + digit_val(s[i + n - 1])

\* the reader of the exponent takes a digit in while the number read so
\* far is below this (0x10000)
ExpCap == 65536

\* one digit of the exponent
exp_digit(exp_num, digit) ==
    IF exp_num < ExpCap THEN 10 * exp_num + digit ELSE exp_num

\* the exponent read from the n digits of s from position i on: the digits
\* after the number has reached ExpCap are skipped
RECURSIVE exp_of(_, _, _)
exp_of(s, i, n) ==
    IF n = 0 THEN 0
    ELSE exp_digit(exp_of(s, i, n - 1), digit_val(s[i + n - 1]))

\* the value of the first n digits of s at full precision, four digits at a time
RECURSIVE bn_of_digits(_, _)
bn_of_digits(s, n) ==
    IF n = 0 THEN <<>>
    ELSE LET c == IF n % 4 = 0 THEN 4 ELSE n % 4
             high == bn_of_digits(s, n - c)
         IN  IF Len(high) = 0 THEN bn_from_int(nat_of(s, n - c + 1, c))
             ELSE bn_add(bn_mul_small(high, Pow10Table[c + 1]),
                         bn_from_int(nat_of(s, n - c + 1, c)))

\* sgn * mant * 10^e10 = sgn * mant * 5^e10 * 2^e10 rounded to the nearest
\* f64, for a mantissa of nd significant digits: from 10^310 on it is
\* infinite, below 10^-330 zero
dec_to_f64(sgn, mant, nd, e10) ==
    IF Len(mant) = 0 THEN Zero(sgn)
    ELSE IF nd + e10 > 310 THEN Inf(sgn)
    ELSE IF nd + e10 < -330 THEN Zero(sgn)
    ELSE round_ratio(sgn,
                     IF e10 >= 0 THEN bn_mul(bn_pow5(e10), mant) ELSE mant,
                     IF e10 >= 0 THEN <<1>> ELSE bn_pow5(-e10),
                     e10)

to_ascii_uppercase_char(c) ==
    IF \E i \in 1..Len(Lower) : Lower[i] = c
    THEN Upper[CHOOSE i \in 1..Len(Lower) : Lower[i] = c]
    ELSE c

to_ascii_uppercase(s) == [i \in 1..Len(s) |-> to_ascii_uppercase_char(s[i])]

Err == [ok |-> FALSE, v |-> NaN]

Ok(v) == [ok |-> TRUE, v |-> v]

\* the decimal part of the f64 grammar, on text without its sign:
\* digits [. digits] [(e|E) [+|-] digits], at least one digit before the
\* exponent; the value is the decimal number rounded to the nearest f64
parse_number(s, negative) ==
    LET ni == digit_run(s, 1)
        p1 == 1 + ni
        hasdot == p1 <= Len(s) /\ s[p1] = "."
        nf == IF hasdot THEN digit_run(s, p1 + 1) ELSE 0
        p2 == IF hasdot THEN p1 + 1 + nf ELSE p1
        hasexp == p2 <= Len(s) /\ s[p2] \in {"e", "E"}
        p3 == p2 + 1
        esign == hasexp /\ p3 <= Len(s) /\ s[p3] \in {"+", "-"}
        eneg == esign /\ s[p3] = "-"
        p4 == IF esign THEN p3 + 1 ELSE p3
        ne == IF hasexp THEN digit_run(s, p4) ELSE 0
        pend == IF hasexp THEN p4 + ne ELSE p2
        digits == SubSeq(s, 1, ni) \o SubSeq(s, p1 + 1, p1 + nf)
        nd == ni + nf - zero_run(digits)
        e == (IF eneg THEN -1 ELSE 1) * exp_of(s, p4, ne) - nf
        sgn == IF negative THEN -1 ELSE 1
    IN  IF ni + nf > 0 /\ (hasexp => ne > 0) /\ pend = Len(s) + 1
        THEN Ok(dec_to_f64(sgn, bn_of_digits(digits, ni + nf), nd, e))
        ELSE Err

\* "inf", "infinity" and "nan" in any letter case, on text without its sign
parse_inf_nan(s, negative) ==
    LET u == to_ascii_uppercase(s)
    IN  IF u = <<"N","A","N">> THEN Ok(NaN)
        ELSE IF u = <<"I","N","F">> \/ u = <<"I","N","F","I","N","I","T","Y">>
        THEN Ok(Inf(IF negative THEN -1 ELSE 1))
        ELSE Err

\* str::parse::<f64>: [+|-] (inf | infinity | nan | decimal number)
parse_f64(s) ==
    IF s = <<>> THEN Err
    ELSE LET c == s[1]
             negative == c = "-"
             rest == IF c = "-" \/ c = "+" THEN Tail(s) ELSE s
         IN  IF rest = <<>> THEN Err
             ELSE IF parse_inf_nan(rest, negative).ok
             THEN parse_inf_nan(rest, negative)
             ELSE parse_number(rest, negative)

-----
(* The aggregates: what they compute *)

\* FormulaResult::success
FormulaResult_success(value) == [value |-> value, isErr |-> FALSE, msg |-> <<>>]

\* a failure that carries NaN as its value
FormulaResult_error_nan(msg) == [value |-> NaN, isErr |-> TRUE, msg |-> msg]

\* FormulaResult::error; the message becomes a C string when the call returns
FormulaResult_error(msg) == [value |-> Zero(1), isErr |-> TRUE, msg |-> msg]

None == [some |-> FALSE, v |-> NaN]

Some(v) == [some |-> TRUE, v |-> v]

SumInit == [sum |-> Zero(1), parsed_count |-> 0]

\* the match on value_str.parse::<f64>() in the loop of tessera_sum
sum_match(acc, num) ==
    IF num.ok
    THEN [sum |-> f64_add(acc.sum, num.v), parsed_count |-> acc.parsed_count + 1]
    ELSE acc

\* the body of the loop of tessera_sum on one entry of the array
sum_body(value_ptr, acc) ==
    IF value_ptr.isNull THEN acc
    ELSE IF ~to_str(value_ptr.bytes).ok THEN acc
    ELSE IF trim(value_ptr.bytes) = <<>> THEN acc
    ELSE sum_match(acc, parse_f64(trim(value_ptr.bytes)))

\* the loop of tessera_sum, from index i on
RECURSIVE sum_loop(_, _, _, _)
sum_loop(values, cnt, i, acc) ==
    IF i >= cnt THEN acc
    ELSE sum_loop(values, cnt, i + 1, sum_body(values[i + 1], acc))

\* tessera_sum without the parsed_count == 0 test: the sum of nothing is 0
sum_result_zero_when_empty(col, vals, cnt) ==
    IF col.isNull \/ vals.isNull THEN FormulaResult_error(MsgNullPointer)
    ELSE IF ~to_str(col.bytes).ok THEN FormulaResult_error(MsgInvalidColumnName)
    ELSE FormulaResult_success(sum_loop(vals.arr, cnt, 0, SumInit).sum)

\* the parsed_count == 0 test and the result after the loop of tessera_sum
sum_finish(acc) ==
    IF acc.parsed_count = 0 THEN FormulaResult_error(MsgNoNumericValues)
    ELSE FormulaResult_success(acc.sum)

\* the FormulaResult tessera_sum returns, before its error text is allocated
sum_result(col, vals, cnt) ==
    IF col.isNull \/ vals.isNull THEN FormulaResult_error(MsgNullPointer)
    ELSE IF ~to_str(col.bytes).ok THEN FormulaResult_error(MsgInvalidColumnName)
    ELSE sum_finish(sum_loop(vals.arr, cnt, 0, SumInit))

\* the match on value_str.parse::<f64>() in the loop of tessera_avg
avg_match(acc, num) ==
    IF num.ok
    THEN [sum |-> f64_add(acc.sum, num.v), parsed_count |-> acc.parsed_count + 1]
    ELSE acc

\* the body of the loop of tessera_avg on one entry of the array
avg_body(value_ptr, acc) ==
    IF value_ptr.isNull THEN acc
    ELSE IF ~to_str(value_ptr.bytes).ok THEN acc
    ELSE IF trim(value_ptr.bytes) = <<>> THEN acc
    ELSE avg_match(acc, parse_f64(trim(value_ptr.bytes)))

\* the loop of tessera_avg, from index i on
RECURSIVE avg_loop(_, _, _, _)
avg_loop(values, cnt, i, acc) ==
    IF i >= cnt THEN acc
    ELSE avg_loop(values, cnt, i + 1, avg_body(values[i + 1], acc))

\* tessera_avg dividing by the length of the input
avg_result_input_len(col, vals, cnt) ==
    IF col.isNull \/ vals.isNull THEN FormulaResult_error(MsgNullPointer)
    ELSE IF ~to_str(col.bytes).ok THEN FormulaResult_error(MsgInvalidColumnName)
    ELSE LET acc == avg_loop(vals.arr, cnt, 0, SumInit)
         IN  IF acc.parsed_count = 0 THEN FormulaResult_error(MsgNoNumericValues)
             ELSE FormulaResult_success(f64_div_count(acc.sum, cnt))

\* the parsed_count == 0 test and the division after the loop of tessera_avg
avg_finish(acc) ==
    IF acc.parsed_count = 0 THEN FormulaResult_error(MsgNoNumericValues)
    ELSE FormulaResult_success(f64_div_count(acc.sum, acc.parsed_count))

\* the FormulaResult tessera_avg returns, before its error text is allocated
avg_result(col, vals, cnt) ==
    IF col.isNull \/ vals.isNull THEN FormulaResult_error(MsgNullPointer)
    ELSE IF ~to_str(col.bytes).ok THEN FormulaResult_error(MsgInvalidColumnName)
    ELSE avg_finish(avg_loop(vals.arr, cnt, 0, SumInit))

\* the match on value_str.parse::<f64>() in the loop of tessera_min
min_match(min_value, num) ==
    IF ~num.ok THEN min_value
    ELSE IF min_value.some THEN Some(f64_min(min_value.v, num.v))
    ELSE Some(num.v)

\* the body of the loop of tessera_min on one entry of the array
min_body(value_ptr, min_value) ==
    IF value_ptr.isNull THEN min_value
    ELSE IF ~to_str(value_ptr.bytes).ok THEN min_value
    ELSE IF trim(value_ptr.bytes) = <<>> THEN min_value
    ELSE min_match(min_value, parse_f64(trim(value_ptr.bytes)))

\* the loop of tessera_min, from index i on
RECURSIVE min_loop(_, _, _, _)
min_loop(values, cnt, i, min_value) ==
    IF i >= cnt THEN min_value
    ELSE min_loop(values, cnt, i + 1, min_body(values[i + 1], min_value))

\* the match on min_value after the loop of tessera_min
min_finish(min_value) ==
    IF min_value.some THEN FormulaResult_success(min_value.v)
    ELSE FormulaResult_error(MsgNoNumericValues)

\* the FormulaResult tessera_min returns, before its error text is allocated
min_result(col, vals, cnt) ==
    IF col.isNull \/ vals.isNull THEN FormulaResult_error(MsgNullPointer)
    ELSE IF ~to_str(col.bytes).ok THEN FormulaResult_error(MsgInvalidColumnName)
    ELSE min_finish(min_loop(vals.arr, cnt, 0, None))

\* the match on value_str.parse::<f64>() in the loop of tessera_max
max_match(max_value, num) ==
    IF ~num.ok THEN max_value
    ELSE IF max_value.some THEN Some(f64_max(max_value.v, num.v))
    ELSE Some(num.v)

\* the body of the loop of tessera_max on one entry of the array
max_body(value_ptr, max_value) ==
    IF value_ptr.isNull THEN max_value
    ELSE IF ~to_str(value_ptr.bytes).ok THEN max_value
    ELSE IF trim(value_ptr.bytes) = <<>> THEN max_value
    ELSE max_match(max_value, parse_f64(trim(value_ptr.bytes)))

\* the loop of tessera_max, from index i on
RECURSIVE max_loop(_, _, _, _)
max_loop(values, cnt, i, max_value) ==
    IF i >= cnt THEN max_value
    ELSE max_loop(values, cnt, i + 1, max_body(values[i + 1], max_value))

\* the match on max_value after the loop of tessera_max
max_finish(max_value) ==
    IF max_value.some THEN FormulaResult_success(max_value.v)
    ELSE FormulaResult_error(MsgNoNumericValues)

\* the FormulaResult tessera_max returns, before its error text is allocated
max_result(col, vals, cnt) ==
    IF col.isNull \/ vals.isNull THEN FormulaResult_error(MsgNullPointer)
    ELSE IF ~to_str(col.bytes).ok THEN FormulaResult_error(MsgInvalidColumnName)
    ELSE max_finish(max_loop(vals.arr, cnt, 0, None))

\* the loop of tessera_count counting only the entries that parse as a number
RECURSIVE count_loop_numeric_only(_, _, _, _)
count_loop_numeric_only(values, cnt, i, counted) ==
    IF i >= cnt THEN counted
    ELSE IF values[i + 1].isNull
    THEN count_loop_numeric_only(values, cnt, i + 1, counted)
    ELSE IF to_str(values[i + 1].bytes).ok
            /\ parse_f64(trim(values[i + 1].bytes)).ok
    THEN count_loop_numeric_only(values, cnt, i + 1, counted + 1)
    ELSE count_loop_numeric_only(values, cnt, i + 1, counted)

\* the loop of tessera_count, from index i on
RECURSIVE count_loop(_, _, _, _)
count_loop(values, cnt, i, counted) ==
    IF i >= cnt THEN counted
    ELSE IF values[i + 1].isNull THEN count_loop(values, cnt, i + 1, counted)
    ELSE LET r == to_str(values[i + 1].bytes)
             value_str == trim(r.s)
         IN  IF ~r.ok THEN count_loop(values, cnt, i + 1, counted)
             ELSE IF value_str # <<>> THEN count_loop(values, cnt, i + 1, counted + 1)
             ELSE count_loop(values, cnt, i + 1, counted)

\* tessera_count decoding the column name before it tests the values pointer
count_result_encoding_first(col, vals, cnt) ==
    IF col.isNull THEN FormulaResult_error(MsgNullPointer)
    ELSE IF ~to_str(col.bytes).ok THEN FormulaResult_error(MsgInvalidColumnName)
    ELSE IF vals.isNull THEN FormulaResult_error(MsgNullPointer)
    ELSE FormulaResult_success(f64_from_int(count_loop(vals.arr, cnt, 0, 0)))

\* the FormulaResult tessera_count returns, before its error text is allocated
count_result(col, vals, cnt) ==
    IF col.isNull \/ vals.isNull THEN FormulaResult_error(MsgNullPointer)
    ELSE IF ~to_str(col.bytes).ok THEN FormulaResult_error(MsgInvalidColumnName)
    ELSE FormulaResult_success(f64_from_int(count_loop(vals.arr, cnt, 0, 0)))

---------------------------------------------------------------------------
(* The calls *)

NullArr == [isNull |-> TRUE, arr |-> <<>>]

Arr(a) == [isNull |-> FALSE, arr |-> a]

NoResult == [value |-> Zero(1), error |-> NULL]

\* tessera_parse_formula: every path ends in CString::into_raw
tessera_parse_formula(f) ==
    /\ op # "abort"
    /\ LET out == parse_formula_text(f)
       IN  IF out.panic
           THEN /\ op' = "abort"
                /\ ptr' = NULL
                /\ UNCHANGED <<heap, held>>
           ELSE \E a \in FreeAddrs(heap) :
                    /\ heap' = into_raw(heap, a, out.text)
                    /\ held' = held \cup {a}
                    /\ ptr' = a
                    /\ op' = "parse"
    /\ formula' = f
    /\ column_name' = NullPtr
    /\ values_ptr' = NullArr
    /\ count' = 0
    /\ result' = NoResult

\* the return of an aggregate call: a failure's message is handed over as a C string
aggregate_return(name, r, col, vals, cnt) ==
    /\ op # "abort"
    /\ IF r.isErr
       THEN \E a \in FreeAddrs(heap) :
                /\ heap' = into_raw(heap, a, r.msg)
                /\ held' = held \cup {a}
                /\ result' = [value |-> r.value, error |-> a]
       ELSE /\ result' = [value |-> r.value, error |-> NULL]
            /\ UNCHANGED <<heap, held>>
    /\ op' = name
    /\ column_name' = col
    /\ values_ptr' = vals
    /\ count' = cnt
    /\ formula' = NullPtr
    /\ ptr' = NULL

tessera_sum(col, vals, cnt) ==
    aggregate_return("sum", sum_result(col, vals, cnt), col, vals, cnt)

tessera_avg(col, vals, cnt) ==
    aggregate_return("avg", avg_result(col, vals, cnt), col, vals, cnt)

tessera_min(col, vals, cnt) ==
    aggregate_return("min", min_result(col, vals, cnt), col, vals, cnt)

tessera_max(col, vals, cnt) ==
    aggregate_return("max", max_result(col, vals, cnt), col, vals, cnt)

tessera_count(col, vals, cnt) ==
    aggregate_return("count", count_result(col, vals, cnt), col, vals, cnt)

\* tessera_free_string; the caller passes null or a text it holds
tessera_free_string(p) ==
    /\ op # "abort"
    /\ p = NULL \/ p \in held
    /\ heap' = IF p # NULL THEN from_raw_drop(heap, p) ELSE heap
    /\ held' = held \ {p}
    /\ op' = "free"
    /\ ptr' = p
    /\ formula' = NullPtr
    /\ column_name' = NullPtr
    /\ values_ptr' = NullArr
    /\ count' = 0
    /\ result' = NoResult

---------------------------------------------------------------------------
(* Inputs *)

\* every text of at most n characters over the alphabet A
TextsUpTo(A, n) == UNION {[1..k -> A] : k \in 0..n}

FormulaAlphabet == {"=", "(", ")", " ", "\r", "s", "A", ":"}

\* formulas longer than MaxLen: the examples of the documentation and the tests,
\* letter case inside and outside ASCII, nested and stray parentheses, white
\* space inside and outside ASCII, text close to an error message
CuratedFormulas ==
    { CStr(<<"=","S","U","M","(","C","o","l","u","m","n","A",")">>),
      CStr(<<"S","U","M","(","C","o","l","u","m","n","A",")">>),
      CStr(<<"=","S","U","M"," ","C","o","l","u","m","n","A",")">>),
      CStr(<<"=","S","U","M","(","C","o","l","u","m","n","A">>),
      CStr(<<"=","S","U","M","(","A",")","x",")">>),
      CStr(<<"=","S","U","M","(","A",")","x">>),
      CStr(<<" "," ","="," ","s","u","m"," ","("," ","C","o","l"," ","A"," ",")"," ","\n">>),
      CStr(<<"=","S","u","m","(","a","(","b",")","c",")">>),
      CStr(<<"=","s","u","m","(","C","o","l","u","m","n","A",")">>),
      CStr(<<"=","S","u","m","(","C","o","l","u","m","n","A",")">>),
      CStr(<<"=","s","t","r","a",SharpS,"e","(","x",")">>),
      CStr(<<"=","\t","(","\t",")">>),
      CStr(<<"\r", "=", "S", "(", "a", ")">>),
      CStr(<<"=", EAcute, "(", "x", ")">>),
      CStr(<<"=", "a", LigatureFi, "n", "(", "x", ")">>),
      CStr(<<"=", "U+03C3", "U+03C2", "(", "x", ")">>),
      CStr(<<"U+00A0", "=", "U+2003", "s", "u", "m", "U+0085", "(", "U+3000", "a", " ", "b", "U+2028", ")", "U+000B", "\f">>),
      CStr(<<"=", "s", "u", "m", "(", "a", ")", "\r", "\n">>),
      CStr(<<"=", "U+0149", "(", "x", ")">>),
      CStr(<<"=", "U+019B", "U+10D70", "(", "x", ")">>),
      CStr(<<"U+200B", "=", "S", "(", "a", ")">>),
      CStr(<<"=","i","n","v","a","l","i","d"," ","f","o","r","m","u","l","a"," ","s","y","n","t","a","x",":"," ","e","x","p","e","c","t","e","d"," ","f","u","n","c","t","i","o","n","(","a","r","g",")">>),
      CStr(<<"=","I","n","v","a","l","i","d"," ","f","o","r","m","u","l","a"," ","s","y","n","t","a","x","("," ","e","x","p","e","c","t","e","d"," ","f","u","n","c","t","i","o","n","(","a","r","g",")",")">>),
      CStr(<<"=","a",":","b","(","c",":","d",")">>),
      CStr(<<"=","S","U","M","(",InvalidByte,")">>),
      CStr(<<InvalidByte>>),
      CStr(<<"=","=","(","=",")">>) }

ParseInputs ==
    {NullPtr} \cup CuratedFormulas \cup {CStr(t) : t \in TextsUpTo(FormulaAlphabet, MaxLen)}

\* the entries of a values array: null, blank, numeric, other text, invalid encoding
CellTexts ==
    { CStr(<<>>),
      CStr(<<" ">>),
      CStr(<<"1","0">>),
      CStr(<<" ","2","0"," ">>),
      CStr(<<"-","5">>),
      CStr(<<"a","b","c">>),
      CStr(<<"i","n","f">>),
      CStr(<<"N","a","N">>),
      CStr(<<"0",".","1">>),
      CStr(<<"0",".","2">>),
      CStr(<<"1","e","1">>),
      CStr(<<"1","0","\r">>),
      CStr(<<InvalidByte>>) }

Cells == {NullPtr} \cup CellTexts

\* further texts on either side of the f64 grammar, each tried as a one-entry column
GrammarCells ==
    { CStr(<<"+">>),
      CStr(<<"-">>),
      CStr(<<".">>),
      CStr(<<"1",".">>),
      CStr(<<".","5">>),
      CStr(<<"1","e">>),
      CStr(<<"1","e","+">>),
      CStr(<<"e","5">>),
      CStr(<<"-","I","n","f","i","n","i","t","y">>),
      CStr(<<"+","7">>),
      CStr(<<"1"," ","2">>),
      CStr(<<"2","E","-","1">>),
      CStr(<<"-","i","n","f">>),
      CStr(<<"0","x","1","0">>),
      CStr(<<"-","-","1">>),
      CStr(<<"1",".","5",".","2">>),
      CStr(<<"\t","3","0","\n">>),
      CStr(<<"3",InvalidByte>>),
      CStr(<<"+","n","a","n">>),
      CStr(<<"i","n","f","i","n","i","t">>),
      CStr(<<"1","e","-","2">>),
      CStr(<<"0","0","7">>),
      CStr(<<"-",".","5","e","1">>),
      CStr(<<"1","_","0">>),
      CStr(<<"n","a","n","o">>),
      CStr(<<"2",".","5">>),
      CStr(<<"1","e","3","0","8">>),
      CStr(<<"\r">>),
      CStr(<<"1", "e", "4", "0", "0">>),
      CStr(<<"-", "1", "e", "4", "0", "0">>),
      CStr(<<"1", "e", "-", "4", "0", "0">>),
      CStr(<<"-", "1", "e", "-", "4", "0", "0">>),
      CStr(<<"-", "0">>),
      CStr(<<"0", ".", "0", "0", "0", "0", "0", "0", "0", "0", "0", "0", "1">>),
      CStr(<<"2", "1", "4", "7", "4", "8", "3", "6", "4", "8">>),
      CStr(<<"1", "e", "1", "0">>),
      CStr(<<"U+00A0", "7", "U+3000">>),
      CStr(<<"U+000B", "8", "\f">>),
      CStr(<<"0", ".", "3", "0", "0", "0", "0", "0", "0", "0", "0", "0", "0", "0", "0", "0", "0", "0", "4">>),
      CStr(<<"4", ".", "9", "e", "-", "3", "2", "4">>),
      CStr(<<"2", ".", "4", "7", "0", "3", "2", "8", "2", "2", "9", "2", "0", "6", "2", "3", "2", "7", "e", "-", "3", "2", "4">>),
      CStr(<<"1", ".", "7", "9", "7", "6", "9", "3", "1", "3", "4", "8", "6", "2", "3", "1", "5", "7", "e", "3", "0", "8">>),
      CStr(<<"1", ".", "7", "9", "7", "6", "9", "3", "1", "3", "4", "8", "6", "2", "3", "1", "5", "9", "e", "3", "0", "8">>),
      CStr(<<"9", "0", "0", "7", "1", "9", "9", "2", "5", "4", "7", "4", "0", "9", "9", "3">>),
      CStr(<<"U+0085">>),
      CStr(<<"1", "U+00A0", "2">>),
      CStr(<<"U+FF19">>),
      CStr(<<"U+200B", "5">>),
      CStr(<<"1", "e", "9", "9", "9", "9", "9", "9", "9", "9", "9", "9", "9">>) }

\* columns longer than MaxCount: those of the tests and of the documentation,
\* sums and averages that round, sums whose order matters, sums that leave
\* the range of f64, zeros of either sign
LongColumns ==
    { <<CStr(<<"1", "0">>), CStr(<<"2", "0">>), CStr(<<"3", "0">>)>>,
      <<CStr(<<"1", "0">>), CStr(<<"2", "0">>), CStr(<<"5">>)>>,
      <<CStr(<<"1", "0">>), CStr(<<>>), CStr(<<"3", "0">>), CStr(<<"4", "0">>)>>,
      <<CStr(<<"1", "0">>), CStr(<<"a", "b", "c">>), CStr(<<" ">>)>>,
      <<CStr(<<>>), CStr(<<"a", "b", "c">>), NullPtr>>,
      <<CStr(<<"1", "0">>), CStr(<<"a", "b", "c">>), CStr(<<" ", "2", "0", " ">>)>>,
      <<CStr(<<"0", ".", "1">>), CStr(<<"0", ".", "2">>), CStr(<<"0", ".", "3">>)>>,
      <<CStr(<<"0", ".", "3">>), CStr(<<"0", ".", "2">>), CStr(<<"0", ".", "1">>)>>,
      <<CStr(<<"0", ".", "7">>), CStr(<<"0", ".", "1">>)>>,
      <<CStr(<<"1", ".", "1">>), CStr(<<"2", ".", "2">>)>>,
      <<CStr(<<"0", ".", "1">>), CStr(<<"0", ".", "1">>), CStr(<<"0", ".", "1">>)>>,
      <<CStr(<<"1", "e", "3", "0", "8">>), CStr(<<"1", "e", "3", "0", "8">>), CStr(<<"-", "1", "e", "3", "0", "8">>)>>,
      <<CStr(<<"-", "1", "e", "3", "0", "8">>), CStr(<<"1", "e", "3", "0", "8">>), CStr(<<"1", "e", "3", "0", "8">>)>>,
      <<CStr(<<"-", "1", "e", "3", "0", "8">>), CStr(<<"-", "1", "e", "3", "0", "8">>)>>,
      <<CStr(<<"-", "0">>), CStr(<<"0">>)>>,
      <<CStr(<<"0">>), CStr(<<"-", "0">>)>>,
      <<CStr(<<"-", "0">>), CStr(<<"-", "0">>)>>,
      <<CStr(<<"5">>), CStr(<<"-", "5">>)>>,
      <<CStr(<<"N", "a", "N">>), CStr(<<"5">>), CStr(<<"-", "i", "n", "f">>)>>,
      <<CStr(<<"i", "n", "f">>), CStr(<<"-", "i", "n", "f">>), CStr(<<"1">>)>>,
      <<CStr(<<"1", "0", "\r">>), NullPtr, CStr(<<"U+00A0">>), CStr(<<" ", "2", ".", "5", "U+2003">>)>>,
      <<CStr(<<"2", ".", "5">>), CStr(<<"1", "e", "1">>), CStr(<<" ", "2", "0", " ">>)>>,
      <<CStr(<<"1", "e", "3", "0", "8">>), CStr(<<"1", "e", "3", "0", "8">>)>>,
      <<CStr(<<"1", "e", "3", "0", "8">>), CStr(<<"i", "n", "f">>), CStr(<<"N", "a", "N">>)>> }

Columns ==
    UNION {[1..k -> Cells] : k \in 0..MaxCount}
    \cup {<<c>> : c \in GrammarCells}
    \cup LongColumns

ColumnNames == {NullPtr, CStr(<<InvalidByte>>), CStr(<<"T","e","s","t">>)}

BoundaryColumns ==
    { <<>>,
      <<CStr(<<"1","0">>)>>,
      <<CStr(<<"a","b","c">>), NullPtr>> }

\* <<column_name, values_ptr, count>>: every column under a valid name, and each
\* kind of name with a null values pointer and with a few columns
AggInputs ==
    {<<CStr(<<"T","e","s","t">>), Arr(c), Len(c)>> : c \in Columns}
    \cup {<<n, Arr(c), Len(c)>> : n \in ColumnNames, c \in BoundaryColumns}
    \cup {<<n, NullArr, k>> : n \in ColumnNames, k \in 0..MaxCount}

SessionFormulas ==
    { NullPtr,
      CStr(<<"=","S","U","M","(","A",")">>),
      CStr(<<"=","S","U","M","(","A">>) }

SessionAggInputs ==
    { <<NullPtr, NullArr, 0>>,
      <<CStr(<<"T","e","s","t">>), Arr(<<CStr(<<"1","0">>), CStr(<<"a","b","c">>)>>), 2>>,
      <<CStr(<<"T","e","s","t">>), Arr(<<CStr(<<" ">>), NullPtr>>), 2>> }

---------------------------------------------------------------------------
(* Specifications *)

Fresh ==
    /\ heap = EmptyHeap
    /\ held = {}
    /\ op = "init"
    /\ ptr = NULL
    /\ result = NoResult

\* a session of parse, aggregate and release calls
Init ==
    /\ Fresh
    /\ formula = NullPtr
    /\ column_name = NullPtr
    /\ values_ptr = NullArr
    /\ count = 0

Next ==
    \/ \E f \in SessionFormulas : tessera_parse_formula(f)
    \/ \E i \in SessionAggInputs : tessera_sum(i[1], i[2], i[3])
    \/ \E i \in SessionAggInputs : tessera_avg(i[1], i[2], i[3])
    \/ \E i \in SessionAggInputs : tessera_min(i[1], i[2], i[3])
    \/ \E i \in SessionAggInputs : tessera_max(i[1], i[2], i[3])
    \/ \E i \in SessionAggInputs : tessera_count(i[1], i[2], i[3])
    \/ \E p \in held \cup {NULL} : tessera_free_string(p)

Spec == Init /\ [][Next]_vars

\* one parse call on each formula, then the release of its text
InitParse ==
    /\ Fresh
    /\ formula \in ParseInputs
    /\ column_name = NullPtr
    /\ values_ptr = NullArr
    /\ count = 0

NextParse ==
    \/ op = "init" /\ tessera_parse_formula(formula)
    \/ op # "init" /\ \E p \in held \cup {NULL} : tessera_free_string(p)

SpecParse == InitParse /\ [][NextParse]_vars

\* one aggregate call on each column, then the release of its error text
InitAgg ==
    /\ Fresh
    /\ formula = NullPtr
    /\ \E i \in AggInputs :
           /\ column_name = i[1]
           /\ values_ptr = i[2]
           /\ count = i[3]

NextAgg ==
    \/ op = "init" /\ tessera_sum(column_name, values_ptr, count)
    \/ op = "init" /\ tessera_avg(column_name, values_ptr, count)
    \/ op = "init" /\ tessera_min(column_name, values_ptr, count)
    \/ op = "init" /\ tessera_max(column_name, values_ptr, count)
    \/ op = "init" /\ tessera_count(column_name, values_ptr, count)
    \/ op # "init" /\ \E p \in held \cup {NULL} : tessera_free_string(p)

SpecAgg == InitAgg /\ [][NextAgg]_vars

---------------------------------------------------------------------------
(* Claims about tessera_parse_formula, checked under SpecParse *)

Range(s) == {s[i] : i \in 1..Len(s)}

\* the formula argument is a string: non-null and decodable
IsString(f) == ~f.isNull /\ to_str(f.bytes).ok

\* the body: the text after the leading '=', trimmed
BodyOf(t) == trim(Tail(trim(t)))

\* the outcome the validation sequence prescribes for the text t
Classify(t) ==
    IF trim(t) = <<>> \/ trim(t)[1] # "=" THEN "MissingLeadingEquals"
    ELSE IF "(" \notin Range(BodyOf(t)) THEN "MissingOpenParen"
    ELSE IF BodyOf(t)[Len(BodyOf(t))] # ")" THEN "MissingCloseParen"
    ELSE "Success"

ClassMessage(c) ==
    CASE c = "MissingLeadingEquals" -> MsgMissingLeadingEquals
      [] c = "MissingOpenParen" -> MsgMissingOpenParen
      [] c = "MissingCloseParen" -> MsgMissingCloseParen

ParseErrorMessages ==
    { MsgNullFormula, MsgInvalidFormulaEncoding, MsgMissingLeadingEquals,
      MsgMissingCloseParen, MsgMissingOpenParen, MsgFailedToCreate }

\* a parse call on a string has just returned (or aborted)
ParsedString == op \in {"parse", "abort"} /\ IsString(formula)

\* the text the parse call returned
Returned == IF ptr \in DOMAIN heap THEN heap[ptr] ELSE <<"<", "dangling", ">">>

ParseSucceeded == ParsedString /\ Classify(formula.bytes) = "Success"

\* C1: on every input string the parse call returns, without aborting, the message
\* of the first failing rule in the order leading '=', '(' in the body, ')' at the
\* end of the body, and a text that is none of the error messages when no rule fails
C1_ShortCircuitOrder ==
    ParsedString =>
        /\ op = "parse"
        /\ ptr # NULL
        /\ IF Classify(formula.bytes) = "Success"
           THEN Returned \notin ParseErrorMessages
           ELSE Returned = ClassMessage(Classify(formula.bytes))

\* "=)(": a ')' before the only '(' and no ')' at the end reports the missing ')'
C1_Witness ==
    /\ op = "parse"
    /\ formula = CStr(<<"=", ")", "(">>)
    /\ Returned = MsgMissingCloseParen

\* position (1-based) of the first '(' of the body
FirstOpen(b) == CHOOSE i \in 1..Len(b) : b[i] = "(" /\ \A j \in 1..(i - 1) : b[j] # "("

ExpectedName(b) == to_uppercase(trim(SubSeq(b, 1, FirstOpen(b) - 1)))

ExpectedArg(b) == trim(SubSeq(b, FirstOpen(b) + 1, Len(b) - 1))

\* the formula with the letters of its name in upper case, the rest as written
UpperNameVariant(b) ==
    <<"=">> \o to_ascii_uppercase(SubSeq(b, 1, FirstOpen(b) - 1))
            \o SubSeq(b, FirstOpen(b), Len(b))

\* C2: a successful parse returns NAME:ARG with NAME the uppercased trimmed text
\* before the first '(' and ARG the trimmed text between the first '(' and the final
\* ')', parentheses inside ARG kept; writing the name in upper case changes nothing
C2_NameAndArgument ==
    ParseSucceeded =>
        /\ Returned = ExpectedName(BodyOf(formula.bytes)) \o <<":">>
                          \o ExpectedArg(BodyOf(formula.bytes))
        /\ parse_formula_text(CStr(UpperNameVariant(BodyOf(formula.bytes)))).text
               = Returned

\* "=SUM(A)x)" gives SUM:A)x
C2_Witness ==
    /\ op = "parse"
    /\ formula = CStr(<<"=", "S", "U", "M", "(", "A", ")", "x", ")">>)
    /\ Returned = <<"S", "U", "M", ":", "A", ")", "x">>

HasColon(t) == ":" \in Range(t)

\* the text before the first ':' of t
BeforeColon(t) == SubSeq(t, 1, (CHOOSE i \in 1..Len(t) : t[i] = ":" /\ \A j \in 1..(i - 1) : t[j] # ":") - 1)

NoLowercase(t) == \A i \in 1..Len(t) : t[i] \notin Range(Lower)

\* C10: a successful parse returns a text that is none of the six error messages: it
\* holds a ':' with no lowercase letter before the first one, and every error message
\* has no ':' or a lowercase letter before it
C10_SuccessIsNoErrorMessage ==
    ParseSucceeded =>
        /\ Returned \notin ParseErrorMessages
        /\ HasColon(Returned)
        /\ NoLowercase(BeforeColon(Returned))
        /\ \A m \in ParseErrorMessages : HasColon(m) => ~NoLowercase(BeforeColon(m))

\* the text of an error message given as a formula parses to a different text
C10_Witness ==
    /\ op = "parse"
    /\ formula.bytes = <<"=">> \o
           <<"i","n","v","a","l","i","d"," ","f","o","r","m","u","l","a"," ","s","y","n",
             "t","a","x",":"," ","e","x","p","e","c","t","e","d"," ","f","u","n","c","t",
             "i","o","n","(","a","r","g",")">>
    /\ Returned =
           <<"I","N","V","A","L","I","D"," ","F","O","R","M","U","L","A"," ","S","Y","N",
             "T","A","X",":"," ","E","X","P","E","C","T","E","D"," ","F","U","N","C","T",
             "I","O","N",":","a","r","g">>

---------------------------------------------------------------------------
(* Claims about the aggregates, checked under SpecAgg *)

NumericOps == {"sum", "avg", "min", "max"}

AggOps == NumericOps \cup {"count"}

\* an aggregate call has just returned
Aggregated == op \in AggOps

\* ... with a column name and a values array that pass the boundary tests
AggregatedValid ==
    Aggregated /\ ~column_name.isNull /\ ~values_ptr.isNull /\ to_str(column_name.bytes).ok

\* the entry is text: present and decodable
IsText(e) == ~e.isNull /\ to_str(e.bytes).ok

IsBlank(e) == IsText(e) /\ \A i \in 1..Len(e.bytes) : e.bytes[i] \in WhiteSpace

\* the entry is present, not blank and parses as a number
IsNumeric(e) == IsText(e) /\ ~IsBlank(e) /\ parse_f64(trim(e.bytes)).ok

\* the numbers of the numeric entries of the array, in input order
NumericValues(arr) ==
    LET parsed == [i \in 1..Len(arr) |->
                      IF IsText(arr[i]) /\ ~IsBlank(arr[i])
                      THEN parse_f64(trim(arr[i].bytes)) ELSE Err]
        nums == SelectSeq(parsed, LAMBDA r : r.ok)
    IN  [i \in 1..Len(nums) |-> nums[i].v]

\* the same number: both NaN, or equal as f64 (0.0 and -0.0 are equal)
f64_same(a, b) ==
    \/ a.k = "nan" /\ b.k = "nan"
    \/ a.k # "nan" /\ b.k # "nan" /\ ~f64_lt(a, b) /\ ~f64_lt(b, a)

\* the sum of a sequence, added to 0.0 from left to right
RECURSIVE RefSum(_)
RefSum(xs) ==
    IF Len(xs) = 0 THEN Zero(1)
    ELSE f64_add(RefSum(SubSeq(xs, 1, Len(xs) - 1)), xs[Len(xs)])

\* the least and the greatest of the numbers of xs; NaN when xs holds only NaN
RefMin(xs) ==
    LET ns == {xs[i] : i \in {j \in 1..Len(xs) : xs[j].k # "nan"}}
    IN  IF ns = {} THEN NaN ELSE CHOOSE m \in ns : \A x \in ns : ~f64_lt(x, m)

RefMax(xs) ==
    LET ns == {xs[i] : i \in {j \in 1..Len(xs) : xs[j].k # "nan"}}
    IN  IF ns = {} THEN NaN ELSE CHOOSE m \in ns : \A x \in ns : ~f64_lt(m, x)

RefReduce(name, xs) ==
    CASE name = "sum" -> RefSum(xs)
      [] name = "avg" -> f64_div_count(RefSum(xs), Len(xs))
      [] name = "min" -> RefMin(xs)
      [] name = "max" -> RefMax(xs)

\* what the call named name computes on the given arguments
ResultOf(name, col, vals, cnt) ==
    CASE name = "sum" -> sum_result(col, vals, cnt)
      [] name = "avg" -> avg_result(col, vals, cnt)
      [] name = "min" -> min_result(col, vals, cnt)
      [] name = "max" -> max_result(col, vals, cnt)
      [] name = "count" -> count_result(col, vals, cnt)

\* the FormulaResult the last call returned, its error pointer followed
Observed ==
    IF result.error = NULL
    THEN [value |-> result.value, isErr |-> FALSE, msg |-> <<>>]
    ELSE [value |-> result.value, isErr |-> TRUE,
          msg |-> IF result.error \in DOMAIN heap THEN heap[result.error]
                  ELSE <<"<", "dangling", ">">>]

Failed(msg) == result.error # NULL /\ Observed.msg = msg

\* C3: SUM, AVG, MIN and MAX fail with NoNumericValues exactly when no entry is
\* numeric, and otherwise return the sum, the sum divided by the number of numeric
\* entries, the minimum and the maximum of the numeric entries in input order;
\* the column without its other entries has the same outcome
C3_ReferenceReducer ==
    AggregatedValid /\ op \in NumericOps =>
        /\ LET nums == NumericValues(values_ptr.arr)
           IN  IF nums = <<>>
               THEN Failed(MsgNoNumericValues)
               ELSE /\ result.error = NULL
                    /\ f64_same(result.value, RefReduce(op, nums))
        /\ LET kept == SelectSeq(values_ptr.arr, IsNumeric)
           IN  ResultOf(op, column_name, Arr(kept), Len(kept)) = Observed

\* an average over a column with a numeric and a skipped entry
C3_Witness ==
    /\ AggregatedValid
    /\ op = "avg"
    /\ count = 3
    /\ Len(NumericValues(values_ptr.arr)) = 2
    /\ result.error = NULL
    /\ result.value = f64_from_int(15)

\* C4: COUNT on a valid column never fails and returns the number of entries that
\* are present and not empty after trimming, numeric or not
C4_CountNonBlank ==
    AggregatedValid /\ op = "count" =>
        /\ result.error = NULL
        /\ result.value =
               f64_from_int(Cardinality({i \in 1..count :
                       IsText(values_ptr.arr[i]) /\ ~IsBlank(values_ptr.arr[i])}))

\* ["10", "abc", " "] counts 2
C4_Witness ==
    /\ op = "count"
    /\ values_ptr = Arr(<<CStr(<<"1", "0">>), CStr(<<"a", "b", "c">>), CStr(<<" ">>)>>)
    /\ result = [value |-> f64_from_int(2), error |-> NULL]

\* every entry is absent, blank, undecodable or text that is no number
NothingNumeric == \A i \in 1..count : ~IsNumeric(values_ptr.arr[i])

\* C5 as stated: on a column without a numeric entry SUM, AVG, MIN and MAX fail with
\* NoNumericValues and COUNT returns 0
C5_CountZeroWithoutNumbers ==
    AggregatedValid /\ NothingNumeric =>
        IF op = "count"
        THEN result = [value |-> Zero(1), error |-> NULL]
        ELSE Failed(MsgNoNumericValues)

\* C5 amended: on a column without a numeric entry SUM, AVG, MIN and MAX fail with
\* NoNumericValues and COUNT returns the number of its non-blank text entries, which
\* is 0 only when every entry is absent or blank
C5_CountsTextWithoutNumbers ==
    AggregatedValid /\ NothingNumeric =>
        IF op = "count"
        THEN /\ result.error = NULL
             /\ result.value =
                    f64_from_int(Cardinality({i \in 1..count :
                            IsText(values_ptr.arr[i]) /\ ~IsBlank(values_ptr.arr[i])}))
             /\ (result.value = Zero(1)) <=>
                    \A i \in 1..count :
                        ~IsText(values_ptr.arr[i]) \/ IsBlank(values_ptr.arr[i])
        ELSE Failed(MsgNoNumericValues)

\* ["", "abc", null] counts 1
C5_Witness ==
    /\ op = "count"
    /\ values_ptr = Arr(<<CStr(<<>>), CStr(<<"a", "b", "c">>), NullPtr>>)
    /\ result = [value |-> f64_from_int(1), error |-> NULL]

AggMessages == {MsgNullPointer, MsgInvalidColumnName, MsgNoNumericValues}

\* the call has to fail: a boundary error, or no numeric entry for a numeric reducer
MustFail ==
    \/ column_name.isNull
    \/ values_ptr.isNull
    \/ ~to_str(column_name.bytes).ok
    \/ op \in NumericOps /\ NumericValues(values_ptr.arr) = <<>>

\* C7: an aggregate call returns either a null error with the computed value, or a
\* non-null error message with the value 0.0, and the first exactly when a result
\* could be computed
C7_ValueOrError ==
    Aggregated =>
        IF MustFail
        THEN /\ result.error # NULL
             /\ result.error \in DOMAIN heap
             /\ heap[result.error] \in AggMessages
             /\ result.value = Zero(1)
        ELSE /\ result.error = NULL
             /\ f64_same(result.value,
                    IF op = "count"
                    THEN f64_from_int(Len(SelectSeq(values_ptr.arr,
                                 LAMBDA e : IsText(e) /\ ~IsBlank(e))))
                    ELSE RefReduce(op, NumericValues(values_ptr.arr)))

\* a failing MIN: the error text is live and the value is 0.0
C7_Witness ==
    /\ op = "min"
    /\ AggregatedValid
    /\ count = 2
    /\ Failed(MsgNoNumericValues)
    /\ result.value = Zero(1)

\* the entry is a null pointer or is not decodable
IsAbsent(e) == e.isNull \/ ~to_str(e.bytes).ok

\* C8: a null column name or values pointer gives the null-input error whatever the
\* count; otherwise an undecodable column name gives the encoding error; otherwise
\* null and undecodable entries change nothing: the call returns what it returns on
\* the array without them, and on the array with null in the place of each
C8_BoundaryErrorsFirst ==
    Aggregated =>
        IF column_name.isNull \/ values_ptr.isNull
        THEN Failed(MsgNullPointer)
        ELSE IF ~to_str(column_name.bytes).ok
        THEN Failed(MsgInvalidColumnName)
        ELSE LET arr == values_ptr.arr
                 without == SelectSeq(arr, LAMBDA e : ~IsAbsent(e))
                 nulled == [i \in 1..Len(arr) |->
                               IF IsAbsent(arr[i]) THEN NullPtr ELSE arr[i]]
             IN  /\ ResultOf(op, column_name, Arr(without), Len(without)) = Observed
                 /\ ResultOf(op, column_name, Arr(nulled), Len(nulled)) = Observed
                 /\ ~Failed(MsgNullPointer)
                 /\ ~Failed(MsgInvalidColumnName)

\* COUNT with an undecodable column name and a null values pointer
C8_Witness ==
    /\ op = "count"
    /\ ~column_name.isNull
    /\ ~to_str(column_name.bytes).ok
    /\ values_ptr.isNull
    /\ count = 0
    /\ Failed(MsgNullPointer)

\* C9 as stated: a successful aggregate call returns a finite value
C9_FiniteOnSuccess ==
    Aggregated /\ result.error = NULL => is_finite(result.value)

---------------------------------------------------------------------------
(* Claim about the ownership of returned texts, checked under Spec *)

\* what one call does to the heap
OwnershipStep ==
    /\ \A p \in Live(heap) :
           ~(op' = "free" /\ ptr' = p) => p \in Live(heap') /\ heap'[p] = heap[p]
    /\ op' = "parse" =>
           /\ ptr' # NULL
           /\ ptr' \notin Live(heap)
           /\ Live(heap') = Live(heap) \cup {ptr'}
           /\ held' = held \cup {ptr'}
    /\ op' \in AggOps =>
           IF result'.error = NULL
           THEN heap' = heap /\ held' = held
           ELSE /\ result'.error \notin Live(heap)
                /\ Live(heap') = Live(heap) \cup {result'.error}
                /\ held' = held \cup {result'.error}
    /\ op' = "free" =>
           IF ptr' = NULL
           THEN heap' = heap /\ held' = held
           ELSE /\ ptr' \in Live(heap)
                /\ Live(heap') = Live(heap) \ {ptr'}
                /\ held' = held \ {ptr'}

\* C6: every text a parse call returns and every error text an aggregate call
\* returns is a fresh allocation, stays live and unchanged until the caller releases
\* it, is freed by its release and by nothing else, releasing null changes nothing,
\* and nothing stays allocated once every returned text is released
C6_Ownership ==
    /\ [](held \subseteq Live(heap) /\ (held = {} => heap = EmptyHeap))
    /\ [][OwnershipStep]_vars

\* a text has just been released while two others are still held
C6_Witness ==
    /\ op = "free"
    /\ ptr # NULL
    /\ ptr \notin Live(heap)
    /\ Cardinality(held) >= 2
    /\ held = Live(heap)

====
